---- MODULE Spec2Model ----
(***************************************************************************)
(* Booking reconciliation of Heron-wellnest-booking: the request /         *)
(* appointment store, the department calendar and the student-side and     *)
(* counselor-side booking services, with every await of a service method   *)
(* that touches the store or the calendar as one step of the calling       *)
(* worker.                                                                 *)
(***************************************************************************)
EXTENDS Integers, FiniteSets, Sequences, TLC

\* ----------------------------------------------------------------- bounds
MaxRequests == 2
MaxClock == 1
MaxTime == 1
NumWorkers == 2
MaxDay == 4
MaxBusy == 2

Workers == 1..NumWorkers
Times == 0..MaxTime
Null == 0 - 1
NoId == 0

\* ------------------------------------------------------------ directories
\* student / counselor tables joined with college_departments: the ids that
\* resolve, and the department each belongs to
StudentIds == {"s0", "s1", "s2"}
CounselorIds == {"c0", "c1", "c2"}
Agendas == {"counseling"}

getStudentDetails(userId) ==
    CASE userId = "s1" -> "D1"
      [] userId = "s2" -> "D2"
      [] OTHER -> "none"

getCounselorDetails(userId) ==
    CASE userId = "c1" -> "D1"
      [] userId = "c2" -> "D1"
      [] OTHER -> "none"

VARIABLES
    now,            \* the wall clock (new Date())
    requests,       \* appointment_requests table: sequence, request_id = index
    appointments,   \* appointments table (committed rows): set of records
    events,         \* department calendars: set of event records
    tx,             \* per worker: the query runner's open transaction
    call,           \* per worker: the service call in progress
    slotCall        \* the getDepartmentAvailableSlots request in progress

vars == <<now, requests, appointments, events, tx, call, slotCall>>

\* ------------------------------------------------------------- call state
Idle ==
    [op |-> "none", role |-> "none", user |-> "none", student |-> "none",
     counselor |-> "none", agenda |-> "none", start |-> 0, end |-> 0,
     id |-> NoId, pc |-> "idle", snap |-> "none", appt |-> NoId,
     ev |-> NoId, res |-> "none", why |-> "none", ret |-> NoId]

\* a row of appointment_requests that stands for "no row"
NoRequest ==
    [student_id |-> "none", counselor_id |-> "none", department |-> "none",
     agenda |-> "none", proposed_start |-> 0, proposed_end |-> 0,
     proposed_by |-> "none", created_by |-> "none",
     student_response |-> "none", counselor_response |-> "none",
     status |-> "none", finalized_at |-> Null, created_at |-> Null]

\* a query runner's transaction: the request row it has updated and not yet
\* committed (reqId, reqRow) and the appointment rows it has inserted
NoTx == [open |-> FALSE, held |-> FALSE, reqId |-> NoId, reqRow |-> NoRequest,
         appts |-> {}]

Done(c, res, why, ret) ==
    [c EXCEPT !.pc = "done", !.res = res, !.why = why, !.ret = ret]

RequestIdsInStore == 1..Len(requests)

\* ------------------------------------------------------ interval overlap
\* the WHERE clause of isTimeSlotAvailable
Overlaps(start_time, end_time, a_start, a_end) ==
    start_time < a_end /\ end_time > a_start

\* ------------------------------------------- AppointmentRequestRepository
\* a variant of createStudentRequest that leaves both response fields
\* pending
createStudentRequest_BothPending(data, t) ==
    [student_id |-> data.student_id, counselor_id |-> data.counselor_id,
     department |-> data.department, agenda |-> data.agenda,
     proposed_start |-> data.proposed_start, proposed_end |-> data.proposed_end,
     proposed_by |-> "student", created_by |-> "student",
     student_response |-> "pending", counselor_response |-> "pending",
     status |-> "pending", finalized_at |-> Null, created_at |-> t]

createStudentRequest(data, t) ==
    [student_id |-> data.student_id, counselor_id |-> data.counselor_id,
     department |-> data.department, agenda |-> data.agenda,
     proposed_start |-> data.proposed_start, proposed_end |-> data.proposed_end,
     proposed_by |-> "student", created_by |-> "student",
     student_response |-> "accepted", counselor_response |-> "pending",
     status |-> "pending", finalized_at |-> Null, created_at |-> t]

\* a variant of createCounselorRequest that pre-fills the response fields the
\* way createStudentRequest does
createCounselorRequest_StudentFields(data, t) ==
    [createStudentRequest(data, t) EXCEPT !.proposed_by = "counselor",
                                          !.created_by = "counselor"]

createCounselorRequest(data, t) ==
    [student_id |-> data.student_id, counselor_id |-> data.counselor_id,
     department |-> data.department, agenda |-> data.agenda,
     proposed_start |-> data.proposed_start, proposed_end |-> data.proposed_end,
     proposed_by |-> "counselor", created_by |-> "counselor",
     student_response |-> "pending", counselor_response |-> "accepted",
     status |-> "pending", finalized_at |-> Null, created_at |-> t]

\* the row that updateStudentResponse saves, from the row it found
updateStudentResponse(request, response, t) ==
    LET r == [request EXCEPT !.student_response = response]
    IN  IF response = "declined"
        THEN [r EXCEPT !.status = "declined", !.finalized_at = t]
        ELSE IF request.counselor_response = "accepted"
             THEN [r EXCEPT !.status = "both_confirmed", !.finalized_at = t]
             ELSE r

\* a variant of updateCounselorResponse that stamps finalized_at only on
\* mutual acceptance
updateCounselorResponse_NoStamp(request, response, t) ==
    LET r == [request EXCEPT !.counselor_response = response]
    IN  IF response = "declined"
        THEN [r EXCEPT !.status = "declined"]
        ELSE IF request.student_response = "accepted"
             THEN [r EXCEPT !.status = "both_confirmed", !.finalized_at = t]
             ELSE r

updateCounselorResponse(request, response, t) ==
    LET r == [request EXCEPT !.counselor_response = response]
    IN  IF response = "declined"
        THEN [r EXCEPT !.status = "declined", !.finalized_at = t]
        ELSE IF request.student_response = "accepted"
             THEN [r EXCEPT !.status = "both_confirmed", !.finalized_at = t]
             ELSE r

\* the transaction-scoped twin of updateCounselorResponse: same row, written
\* through the query runner's manager
updateCounselorResponseWithManager(request, response, t) ==
    updateCounselorResponse(request, response, t)

\* the duplicate lookups of requestAppointment: called with the initiator,
\* the interval and the agenda (the counterparty is not an argument)
findRequestsByStudentAndTime(userId, proposedStart, proposedEnd, agenda) ==
    {i \in RequestIdsInStore :
        /\ requests[i].student_id = userId
        /\ requests[i].created_by = "student"
        /\ requests[i].proposed_start = proposedStart
        /\ requests[i].proposed_end = proposedEnd
        /\ requests[i].agenda = agenda}

findRequestsByCounselorAndTime(userId, proposedStart, proposedEnd, agenda) ==
    {i \in RequestIdsInStore :
        /\ requests[i].counselor_id = userId
        /\ requests[i].created_by = "counselor"
        /\ requests[i].proposed_start = proposedStart
        /\ requests[i].proposed_end = proposedEnd
        /\ requests[i].agenda = agenda}

\* a row lock: another open transaction holds an uncommitted update of the row
RowLocked(w, id) ==
    \E v \in Workers \ {w} : tx[v].open /\ tx[v].reqId = id

\* a variant of isTimeSlotAvailable that reports every slot free
isTimeSlotAvailable_AlwaysFree(counselor_id, start_time, end_time, exclude_appointment_id) ==
    TRUE

\* --------------------------------------------------- AppointmentRepository
isTimeSlotAvailable(counselor_id, start_time, end_time, exclude_appointment_id) ==
    {a \in appointments :
        /\ a.counselor_id = counselor_id
        /\ a.cancelled_at = Null
        /\ Overlaps(start_time, end_time, a.start_time, a.end_time)
        /\ (exclude_appointment_id # NoId =>
                a.appointment_id # exclude_appointment_id)} = {}

\* every appointment row, committed or inserted by an open transaction
AllAppointmentRows == appointments \cup UNION {tx[w].appts : w \in Workers}

\* a generated appointment_id not in use
FreshAppointmentId ==
    LET used == {a.appointment_id : a \in AllAppointmentRows}
    IN  CHOOSE i \in 1..(Cardinality(used) + 1) :
            i \notin used /\ \A j \in 1..(i - 1) : j \in used

\* the row that createAppointmentWithManager creates
createAppointmentWithManager(id, request_id, data) ==
    [appointment_id |-> id, request |-> request_id,
     student_id |-> data.student_id, counselor_id |-> data.counselor_id,
     department |-> data.department, agenda |-> data.agenda,
     start_time |-> data.proposed_start, end_time |-> data.proposed_end,
     google_event_id |-> Null, status |-> "both_confirmed",
     cancelled_by |-> "none", cancelled_at |-> Null]

\* createAppointment of the student service: the same row, saved through the
\* repository's own connection
createAppointment(id, request_id, data) ==
    createAppointmentWithManager(id, request_id, data)

\* a variant of the appointments table without the unique index on request_id
RequestHasAppointment_NoIndex(rows, request_id) ==
    FALSE

\* the unique index of the one-to-one relation appointments.request_id
RequestHasAppointment(rows, request_id) ==
    \E a \in rows : a.request = request_id

\* a variant of updateGoogleEventId that leaves the rows as they are
updateGoogleEventId_NoAttach(rows, appointment_id, google_event_id) ==
    rows

\* the rows after updateGoogleEventId / updateGoogleEventIdWithManager
updateGoogleEventId(rows, appointment_id, google_event_id) ==
    {IF a.appointment_id = appointment_id
     THEN [a EXCEPT !.google_event_id = google_event_id] ELSE a : a \in rows}

\* a variant of cancelAppointment that records who cancelled and the status
\* but not the time of cancellation
cancelAppointment_NoTime(rows, appointment_id, cancelled_by, t) ==
    {IF a.appointment_id = appointment_id
     THEN [a EXCEPT !.cancelled_by = cancelled_by, !.status = "declined"]
     ELSE a : a \in rows}

\* a variant of cancelAppointment that also forgets the calendar event of
\* the appointment
cancelAppointment_DropsEvent(rows, appointment_id, cancelled_by, t) ==
    {IF a.appointment_id = appointment_id
     THEN [a EXCEPT !.cancelled_by = cancelled_by, !.cancelled_at = t,
                    !.status = "declined", !.google_event_id = Null]
     ELSE a : a \in rows}

\* the rows after AppointmentRepository.cancelAppointment
cancelAppointment(rows, appointment_id, cancelled_by, t) ==
    {IF a.appointment_id = appointment_id
     THEN [a EXCEPT !.cancelled_by = cancelled_by, !.cancelled_at = t,
                    !.status = "declined"]
     ELSE a : a \in rows}

\* ------------------------------------------------ GoogleCalendarRepository
FreshEventId ==
    LET used == {e.event_id : e \in events}
    IN  CHOOSE i \in 1..(Cardinality(used) + 1) :
            i \notin used /\ \A j \in 1..(i - 1) : j \in used

\* the event that createEvent inserts into the department calendar
createEvent(id, eventData) ==
    [event_id |-> id, department |-> eventData.department,
     start_time |-> eventData.start_time, end_time |-> eventData.end_time,
     appointment_id |-> eventData.appointment_id]

\* the free/busy answer of the department calendar for [timeMin, timeMax)
BusyPeriods(department, timeMin, timeMax) ==
    {e \in events :
        /\ e.department = department
        /\ Overlaps(timeMin, timeMax, e.start_time, e.end_time)}

\* a variant of checkAvailability that reports the slot taken when the
\* query raises an error
checkAvailability_FailClosed(department, proposedStart, proposedEnd, queryOk) ==
    IF queryOk
    THEN BusyPeriods(department, proposedStart, proposedEnd) = {}
    ELSE FALSE

\* checkAvailability: queryOk = FALSE is the query raising an error
checkAvailability(department, proposedStart, proposedEnd, queryOk) ==
    IF queryOk
    THEN BusyPeriods(department, proposedStart, proposedEnd) = {}
    ELSE TRUE

\* ============================================= department available slots
\* A Date is a number of minutes of local time counted from 00:00 of day 0,
\* a Thursday, in a zone without daylight saving
MinutesPerHour == 60
MinutesPerDay == 24 * MinutesPerHour
EpochDay == 4

\* Date.getDay: 0 is Sunday, 6 is Saturday
getDay(t) == ((t \div MinutesPerDay) + EpochDay) % 7
getHours(t) == (t % MinutesPerDay) \div MinutesPerHour
getMinutes(t) == t % MinutesPerHour
\* Date.setHours(hour, 0, 0, 0): an hour past 23 carries into the next day
setHours(t, hour) == (t \div MinutesPerDay) * MinutesPerDay + hour * MinutesPerHour
\* Date.setMinutes(minutes): minutes past 59 carry into the next hours
setMinutes(t, minutes) == (t - getMinutes(t)) + minutes
\* currentDate.setDate(currentDate.getDate() + 1)
NextDate(t) == t + MinutesPerDay

\* a variant of DaySlots that keeps a slot only when it ends before the hour
\* workEndHour
RECURSIVE DaySlots_EndsBefore(_, _, _, _)
DaySlots_EndsBefore(currentDate, hour, workEndHour, slotDurationMinutes) ==
    IF hour < workEndHour
    THEN LET slotStart == setHours(currentDate, hour)
             slotEnd == setMinutes(slotStart,
                                   getMinutes(slotStart) + slotDurationMinutes)
             rest == DaySlots_EndsBefore(currentDate, hour + 1, workEndHour,
                                         slotDurationMinutes)
         IN  IF getHours(slotEnd) < workEndHour
             THEN <<[start |-> slotStart, end |-> slotEnd]>> \o rest
             ELSE rest
    ELSE <<>>

\* the slots that the for loop over the hours of one day pushes
RECURSIVE DaySlots(_, _, _, _)
DaySlots(currentDate, hour, workEndHour, slotDurationMinutes) ==
    IF hour < workEndHour
    THEN LET slotStart == setHours(currentDate, hour)
             slotEnd == setMinutes(slotStart,
                                   getMinutes(slotStart) + slotDurationMinutes)
             rest == DaySlots(currentDate, hour + 1, workEndHour,
                              slotDurationMinutes)
         IN  IF getHours(slotEnd) <= workEndHour
             THEN <<[start |-> slotStart, end |-> slotEnd]>> \o rest
             ELSE rest
    ELSE <<>>

\* a variant of allSlots that skips Sundays only
RECURSIVE allSlots_SundayOnly(_, _, _, _, _)
allSlots_SundayOnly(currentDate, endDate, slotDurationMinutes, workStartHour, workEndHour) ==
    IF currentDate <= endDate
    THEN (IF getDay(currentDate) # 0
          THEN DaySlots(currentDate, workStartHour, workEndHour,
                        slotDurationMinutes)
          ELSE <<>>)
         \o allSlots_SundayOnly(NextDate(currentDate), endDate,
                                slotDurationMinutes, workStartHour, workEndHour)
    ELSE <<>>

\* the while loop over the days: allSlots in push order
RECURSIVE allSlots(_, _, _, _, _)
allSlots(currentDate, endDate, slotDurationMinutes, workStartHour, workEndHour) ==
    IF currentDate <= endDate
    THEN (IF getDay(currentDate) # 0 /\ getDay(currentDate) # 6
          THEN DaySlots(currentDate, workStartHour, workEndHour,
                        slotDurationMinutes)
          ELSE <<>>)
         \o allSlots(NextDate(currentDate), endDate, slotDurationMinutes,
                     workStartHour, workEndHour)
    ELSE <<>>

\* a variant of SlotOverlapsBusy that looks at the start of the slot only
SlotOverlapsBusy_StartOnly(slot, busy) ==
    slot.start >= busy.start /\ slot.start < busy.end

\* a variant of SlotOverlapsBusy with closed intervals
SlotOverlapsBusy_Closed(slot, busy) ==
    slot.start <= busy.end /\ busy.start <= slot.end

\* the test inside busySlots.some
SlotOverlapsBusy(slot, busy) ==
    \/ slot.start >= busy.start /\ slot.start < busy.end
    \/ slot.end > busy.start /\ slot.end <= busy.end
    \/ slot.start <= busy.start /\ slot.end >= busy.end

\* a variant of availableSlots that drops a slot only when a busy period is
\* equal to it
availableSlots_EqualOnly(slots, busySlots) ==
    SelectSeq(slots, LAMBDA slot : slot \notin busySlots)

\* allSlots.filter(slot => !busySlots.some(...))
availableSlots(slots, busySlots) ==
    SelectSeq(slots, LAMBDA slot :
                        ~\E busy \in busySlots : SlotOverlapsBusy(slot, busy))

\* a query parameter: absent, a text that does not parse, or a number
Absent == [kind |-> "absent", n |-> 0]
NotParsed == [kind |-> "text", n |-> 0]
Num(n) == [kind |-> "num", n |-> n]

\* slotDuration ? parseInt(slotDuration, 10) : 60, and new Date(startDate)
parseIntOr(p, default) == IF p.kind = "absent" THEN Num(default) ELSE p
isNaN(p) == p.kind = "text"

\* the checks of the controller in their order: the code of the first that
\* fails, or "OK"
SlotsChecks(q, role) ==
    IF q.userId = "none" THEN "UNAUTHORIZED"
    ELSE IF q.userRole # role THEN "FORBIDDEN"
    ELSE IF q.department = "none" THEN "MISSING_DEPARTMENT"
    ELSE IF q.startDate.kind = "absent" \/ q.endDate.kind = "absent"
         THEN "BAD_REQUEST"
    ELSE IF isNaN(q.startDate) THEN "INVALID_START"
    ELSE IF isNaN(q.endDate) THEN "INVALID_END"
    ELSE LET slotDurationMinutes == parseIntOr(q.slotDuration, 60)
             workStart == parseIntOr(q.workStartHour, 9)
             workEnd == parseIntOr(q.workEndHour, 17)
         IN  IF isNaN(slotDurationMinutes) \/ slotDurationMinutes.n <= 0
             THEN "INVALID_SLOT_DURATION"
             ELSE IF isNaN(workStart) \/ workStart.n < 0 \/ workStart.n > 23
             THEN "INVALID_WORK_START_HOUR"
             ELSE IF isNaN(workEnd) \/ workEnd.n < 0 \/ workEnd.n > 24
             THEN "INVALID_WORK_END_HOUR"
             ELSE IF workStart.n >= workEnd.n
             THEN "INVALID_WORK_HOURS"
             ELSE "OK"

NoQuery ==
    [userId |-> "none", userRole |-> "none", department |-> "none",
     startDate |-> Absent, endDate |-> Absent, slotDuration |-> Absent,
     workStartHour |-> Absent, workEndHour |-> Absent]

NoSlotCall ==
    [pc |-> "idle", role |-> "none", q |-> NoQuery, queryOk |-> TRUE,
     busySlots |-> {}, code |-> "none", allSlots |-> <<>>, data |-> <<>>]

\* a variant of getDepartmentBusySlots that swallows the error of the
\* free/busy query and answers that nothing is busy
getDepartmentBusySlots_FailOpen(busySlots, queryOk) ==
    [ok |-> TRUE, busy |-> IF queryOk THEN busySlots ELSE {}]

\* getDepartmentBusySlots: the busy periods of the free/busy answer, or the
\* AppError CALENDAR_QUERY_FAILED when the query raises an error
getDepartmentBusySlots(busySlots, queryOk) ==
    [ok |-> queryOk, busy |-> IF queryOk THEN busySlots ELSE {}]

\* the controller and the service it calls, for one request; busySlots is
\* the answer of the free/busy query and queryOk = FALSE is the query
\* raising an error
GetDepartmentAvailableSlots(role, q, busySlots, queryOk) ==
    /\ LET code == SlotsChecks(q, role)
           answer == getDepartmentBusySlots(busySlots, queryOk)
           grid == allSlots(q.startDate.n, q.endDate.n,
                            parseIntOr(q.slotDuration, 60).n,
                            parseIntOr(q.workStartHour, 9).n,
                            parseIntOr(q.workEndHour, 17).n)
       IN  slotCall' =
             IF code # "OK"
             THEN [NoSlotCall EXCEPT !.pc = "done", !.role = role, !.q = q,
                                     !.code = code]
             ELSE IF ~answer.ok
             THEN [NoSlotCall EXCEPT !.pc = "done", !.role = role, !.q = q,
                                     !.queryOk = queryOk,
                                     !.code = "CALENDAR_QUERY_FAILED"]
             ELSE [pc |-> "done", role |-> role, q |-> q,
                   queryOk |-> queryOk,
                   busySlots |-> answer.busy,
                   code |-> "AVAILABLE_SLOTS_RETRIEVED",
                   allSlots |-> grid,
                   data |-> availableSlots(grid, answer.busy)]
    /\ UNCHANGED <<now, requests, appointments, events, tx, call>>

SlotsReturn ==
    /\ slotCall.pc = "done"
    /\ slotCall' = NoSlotCall
    /\ UNCHANGED <<now, requests, appointments, events, tx, call>>

\* the requests the slot calls are made with
StartDates == {Absent, NotParsed, Num(0), Num(15 * MinutesPerHour),
               Num(MinutesPerDay + 10 * MinutesPerHour)}
EndDates == {Absent, NotParsed, Num(0),
             Num(MinutesPerDay + 10 * MinutesPerHour),
             Num(MaxDay * MinutesPerDay + 10 * MinutesPerHour)}
SlotDurations == {Absent, NotParsed, Num(0 - 60), Num(0), Num(30), Num(120),
                  Num(960)}
WorkStartHours == {Absent, NotParsed, Num(0 - 1), Num(0), Num(23), Num(24)}
WorkEndHours == {Absent, NotParsed, Num(0 - 1), Num(10), Num(24), Num(25)}
BusyPeriodChoices ==
    {[start |-> 9 * MinutesPerHour, end |-> 10 * MinutesPerHour],
     [start |-> 10 * MinutesPerHour, end |-> 10 * MinutesPerHour],
     [start |-> 10 * MinutesPerHour, end |-> 10 * MinutesPerHour + 30],
     [start |-> MinutesPerDay + 9 * MinutesPerHour + 30,
      end |-> MinutesPerDay + 10 * MinutesPerHour + 30]}
BusyAnswers == {b \in SUBSET BusyPeriodChoices : Cardinality(b) <= MaxBusy}

SlotQueries(userId, role) ==
    {[userId |-> u, userRole |-> r, department |-> d, startDate |-> Num(0),
      endDate |-> Num(MinutesPerDay + 10 * MinutesPerHour),
      slotDuration |-> Absent, workStartHour |-> Absent,
      workEndHour |-> Absent] :
        u \in {userId, "none"}, r \in {"student", "counselor"},
        d \in {"D1", "none"}}
    \cup
    {[userId |-> userId, userRole |-> role, department |-> "D1",
      startDate |-> s, endDate |-> e, slotDuration |-> m,
      workStartHour |-> ws, workEndHour |-> we] :
        s \in StartDates, e \in EndDates, m \in SlotDurations,
        ws \in WorkStartHours, we \in WorkEndHours}

StudentGetDepartmentAvailableSlots ==
    /\ slotCall.pc = "idle"
    /\ \E q \in SlotQueries("s1", "student"), busySlots \in BusyAnswers,
          queryOk \in BOOLEAN :
           /\ ~queryOk => busySlots = {}
           /\ GetDepartmentAvailableSlots("student", q, busySlots, queryOk)

CounselorGetDepartmentAvailableSlots ==
    /\ slotCall.pc = "idle"
    /\ \E q \in SlotQueries("c1", "counselor"), busySlots \in BusyAnswers,
          queryOk \in BOOLEAN :
           /\ ~queryOk => busySlots = {}
           /\ GetDepartmentAvailableSlots("counselor", q, busySlots, queryOk)

\* ================================================================== Init
Init ==
    /\ now = 0
    /\ requests = <<>>
    /\ appointments = {}
    /\ events = {}
    /\ tx = [w \in Workers |-> NoTx]
    /\ call = [w \in Workers |-> Idle]
    /\ slotCall = NoSlotCall

\* requestAppointment calls that may still insert a request row
Proposing == {w \in Workers : call[w].op = "requestAppointment" /\ call[w].pc # "done"}

\* ============================================ requestAppointment (both services)
\* a variant of the student checks that looks the users up before it looks
\* for a duplicate
StudentRequestChecks_LookupFirst(userId, agenda, counselorId, proposedStart, proposedEnd) ==
    IF proposedEnd <= proposedStart THEN "INVALID_TIME_RANGE"
    ELSE IF proposedStart < now THEN "PAST_APPOINTMENT"
    ELSE IF getStudentDetails(userId) = "none" THEN "STUDENT_NOT_FOUND"
    ELSE IF getCounselorDetails(counselorId) = "none" THEN "COUNSELOR_NOT_FOUND"
    ELSE IF findRequestsByStudentAndTime(userId, proposedStart, proposedEnd, agenda) # {}
         THEN "DUPLICATE_REQUEST"
    ELSE IF getStudentDetails(userId) # getCounselorDetails(counselorId)
         THEN "DIFFERENT_DEPARTMENT"
    ELSE "OK"

\* the checks of StudentBookingService.requestAppointment up to the
\* department comparison; "OK" when all of them pass
StudentRequestChecks(userId, agenda, counselorId, proposedStart, proposedEnd) ==
    IF proposedEnd <= proposedStart THEN "INVALID_TIME_RANGE"
    ELSE IF proposedStart < now THEN "PAST_APPOINTMENT"
    ELSE IF findRequestsByStudentAndTime(userId, proposedStart, proposedEnd, agenda) # {}
         THEN "DUPLICATE_REQUEST"
    ELSE IF getStudentDetails(userId) = "none" THEN "STUDENT_NOT_FOUND"
    ELSE IF getCounselorDetails(counselorId) = "none" THEN "COUNSELOR_NOT_FOUND"
    ELSE IF getStudentDetails(userId) # getCounselorDetails(counselorId)
         THEN "DIFFERENT_DEPARTMENT"
    ELSE "OK"

\* the same checks of CounselorBookingService.requestAppointment
CounselorRequestChecks(userId, agenda, studentId, proposedStart, proposedEnd) ==
    IF proposedEnd <= proposedStart THEN "INVALID_TIME_RANGE"
    ELSE IF proposedStart < now THEN "PAST_APPOINTMENT"
    ELSE IF findRequestsByCounselorAndTime(userId, proposedStart, proposedEnd, agenda) # {}
         THEN "DUPLICATE_REQUEST"
    ELSE IF getCounselorDetails(userId) = "none" THEN "COUNSELOR_NOT_FOUND"
    ELSE IF getStudentDetails(studentId) = "none" THEN "STUDENT_NOT_FOUND"
    ELSE IF getStudentDetails(studentId) # getCounselorDetails(userId)
         THEN "DIFFERENT_DEPARTMENT"
    ELSE "OK"

StudentRequestAppointment(w, userId, agenda, counselorId, proposedStart, proposedEnd) ==
    /\ call[w].pc = "idle"
    /\ Len(requests) + Cardinality(Proposing) < MaxRequests
    /\ LET c == [Idle EXCEPT !.op = "requestAppointment", !.role = "student",
                             !.user = userId, !.student = userId,
                             !.counselor = counselorId, !.agenda = agenda,
                             !.start = proposedStart, !.end = proposedEnd]
           chk == StudentRequestChecks(userId, agenda, counselorId,
                                       proposedStart, proposedEnd)
       IN  call' = [call EXCEPT ![w] =
                       IF chk = "OK" THEN [c EXCEPT !.pc = "req_db"]
                       ELSE Done(c, chk, "none", NoId)]
    /\ UNCHANGED <<now, requests, appointments, events, tx>>
    /\ UNCHANGED slotCall

CounselorRequestAppointment(w, userId, agenda, studentId, proposedStart, proposedEnd) ==
    /\ call[w].pc = "idle"
    /\ Len(requests) + Cardinality(Proposing) < MaxRequests
    /\ LET c == [Idle EXCEPT !.op = "requestAppointment", !.role = "counselor",
                             !.user = userId, !.student = studentId,
                             !.counselor = userId, !.agenda = agenda,
                             !.start = proposedStart, !.end = proposedEnd]
           chk == CounselorRequestChecks(userId, agenda, studentId,
                                         proposedStart, proposedEnd)
       IN  call' = [call EXCEPT ![w] =
                       IF chk = "OK" THEN [c EXCEPT !.pc = "req_db"]
                       ELSE Done(c, chk, "none", NoId)]
    /\ UNCHANGED <<now, requests, appointments, events, tx>>
    /\ UNCHANGED slotCall

\* 1. Check database for confirmed appointments
RequestCheckDb(w) ==
    /\ call[w].pc = "req_db"
    /\ LET c == call[w]
       IN  call' = [call EXCEPT ![w] =
                       IF isTimeSlotAvailable(c.counselor, c.start, c.end, NoId)
                       THEN [c EXCEPT !.pc = "req_cal"]
                       ELSE Done(c, "TIME_SLOT_UNAVAILABLE", "db", NoId)]
    /\ UNCHANGED <<now, requests, appointments, events, tx>>
    /\ UNCHANGED slotCall

\* 2. Check Google Calendar for conflicting events in the department calendar
RequestCalendarQuery(w, queryOk) ==
    /\ call[w].pc = "req_cal"
    /\ LET c == call[w]
           department == IF c.role = "student" THEN getStudentDetails(c.student)
                         ELSE getCounselorDetails(c.counselor)
       IN  call' = [call EXCEPT ![w] =
                       IF checkAvailability(department, c.start, c.end, queryOk)
                       THEN [c EXCEPT !.pc = "req_create"]
                       ELSE Done(c, "TIME_SLOT_UNAVAILABLE", "calendar", NoId)]
    /\ UNCHANGED <<now, requests, appointments, events, tx>>
    /\ UNCHANGED slotCall

\* the free/busy query answers or raises an error
RequestCheckCalendar(w) ==
    \E queryOk \in BOOLEAN : RequestCalendarQuery(w, queryOk)

\* createStudentRequest / createCounselorRequest
RequestCreate(w) ==
    /\ call[w].pc = "req_create"
    /\ LET c == call[w]
           data == [student_id |-> c.student, counselor_id |-> c.counselor,
                    department |-> IF c.role = "student"
                                   THEN getStudentDetails(c.student)
                                   ELSE getCounselorDetails(c.counselor),
                    agenda |-> c.agenda,
                    proposed_start |-> c.start, proposed_end |-> c.end]
           row == IF c.role = "student" THEN createStudentRequest(data, now)
                  ELSE createCounselorRequest(data, now)
       IN  /\ requests' = Append(requests, row)
           /\ call' = [call EXCEPT ![w] = Done(c, "OK", "none", Len(requests) + 1)]
    /\ UNCHANGED <<now, appointments, events, tx>>
    /\ UNCHANGED slotCall

\* a variant of the student checks that tests the response field only
StudentAcceptChecks_ResponseOnly(requestId) ==
    IF requestId \notin RequestIdsInStore THEN "REQUEST_NOT_FOUND"
    ELSE IF requests[requestId].student_response # "pending"
         THEN "INVALID_STUDENT_RESPONSE"
    ELSE "OK"

\* ===================================== acceptAppointmentRequest (both services)
\* getRequestById and the status / response checks of the student service
StudentAcceptChecks(requestId) ==
    IF requestId \notin RequestIdsInStore THEN "REQUEST_NOT_FOUND"
    ELSE IF requests[requestId].status # "pending" THEN "INVALID_REQUEST_STATUS"
    ELSE IF requests[requestId].student_response # "pending"
         THEN "INVALID_STUDENT_RESPONSE"
    ELSE "OK"

CounselorAcceptChecks(requestId) ==
    IF requestId \notin RequestIdsInStore THEN "REQUEST_NOT_FOUND"
    ELSE IF requests[requestId].status # "pending" THEN "INVALID_REQUEST_STATUS"
    ELSE IF requests[requestId].counselor_response # "pending"
         THEN "INVALID_COUNSELOR_RESPONSE"
    ELSE "OK"

\* the call record once the request row has been fetched
Fetched(c, requestId) ==
    LET r == requests[requestId]
    IN  [c EXCEPT !.student = r.student_id, !.counselor = r.counselor_id,
                  !.agenda = r.agenda, !.start = r.proposed_start,
                  !.end = r.proposed_end,
                  !.snap = IF c.role = "student" THEN r.counselor_response
                           ELSE r.student_response]

StudentAcceptAppointmentRequest(w, userId, requestId) ==
    /\ call[w].pc = "idle"
    /\ LET c == [Idle EXCEPT !.op = "acceptAppointmentRequest", !.role = "student",
                             !.user = userId, !.id = requestId]
           chk == StudentAcceptChecks(requestId)
       IN  call' = [call EXCEPT ![w] =
                       IF chk = "OK" THEN [Fetched(c, requestId) EXCEPT !.pc = "acc_db"]
                       ELSE Done(c, chk, "none", NoId)]
    /\ UNCHANGED <<now, requests, appointments, events, tx>>
    /\ UNCHANGED slotCall

CounselorAcceptAppointmentRequest(w, userId, requestId) ==
    /\ call[w].pc = "idle"
    /\ LET c == [Idle EXCEPT !.op = "acceptAppointmentRequest", !.role = "counselor",
                             !.user = userId, !.id = requestId]
           chk == CounselorAcceptChecks(requestId)
       IN  call' = [call EXCEPT ![w] =
                       IF chk = "OK" THEN [Fetched(c, requestId) EXCEPT !.pc = "acc_db"]
                       ELSE Done(c, chk, "none", NoId)]
    /\ UNCHANGED <<now, requests, appointments, events, tx>>
    /\ UNCHANGED slotCall

\* 1. Check database for confirmed appointments (before accepting)
AcceptCheckDb(w) ==
    /\ call[w].pc = "acc_db"
    /\ LET c == call[w]
       IN  call' = [call EXCEPT ![w] =
                       IF isTimeSlotAvailable(c.counselor, c.start, c.end, NoId)
                       THEN [c EXCEPT !.pc = "acc_cal"]
                       ELSE Done(c, "TIME_SLOT_UNAVAILABLE", "db", NoId)]
    /\ UNCHANGED <<now, requests, appointments, events, tx>>
    /\ UNCHANGED slotCall

\* 2. Check Google Calendar (before accepting)
AcceptCalendarQuery(w, queryOk) ==
    /\ call[w].pc = "acc_cal"
    /\ LET c == call[w]
       IN  call' = [call EXCEPT ![w] =
                       IF checkAvailability(requests[c.id].department,
                                            c.start, c.end, queryOk)
                       THEN [c EXCEPT !.pc = "acc_record"]
                       ELSE Done(c, "TIME_SLOT_UNAVAILABLE", "calendar", NoId)]
    /\ UNCHANGED <<now, requests, appointments, events, tx>>
    /\ UNCHANGED slotCall

\* the free/busy query answers or raises an error
AcceptCheckCalendar(w) ==
    \E queryOk \in BOOLEAN : AcceptCalendarQuery(w, queryOk)

\* student service: updateStudentResponse on the repository's own connection,
\* then, when both sides have accepted, the user lookups and the start of the
\* query runner's transaction
StudentAcceptRecord(w) ==
    /\ call[w].pc = "acc_record"
    /\ call[w].role = "student"
    /\ ~RowLocked(w, call[w].id)
    /\ LET c == call[w]
           updatedRequest == updateStudentResponse(requests[c.id], "accepted", now)
           both == /\ updatedRequest.counselor_response = "accepted"
                   /\ updatedRequest.student_response = "accepted"
           found == /\ getStudentDetails(updatedRequest.student_id) # "none"
                    /\ getCounselorDetails(updatedRequest.counselor_id) # "none"
       IN  /\ requests' = [requests EXCEPT ![c.id] = updatedRequest]
           /\ IF ~both
              THEN /\ call' = [call EXCEPT ![w] = Done(c, "OK", "none", NoId)]
                   /\ tx' = tx
              ELSE IF ~found
              THEN /\ call' = [call EXCEPT ![w] =
                                  Done(c, "USER_DETAILS_NOT_FOUND", "none", NoId)]
                   /\ tx' = tx
              ELSE /\ call' = [call EXCEPT ![w] = [c EXCEPT !.pc = "fin_recheck"]]
                   /\ tx' = [tx EXCEPT ![w] = [NoTx EXCEPT !.open = TRUE, !.held = TRUE]]
    /\ UNCHANGED <<now, appointments, events>>
    /\ UNCHANGED slotCall

\* counselor service: the branch on the fetched row's student_response, the
\* user lookups and the start of the query runner's transaction
CounselorAcceptRecord(w) ==
    /\ call[w].pc = "acc_record"
    /\ call[w].role = "counselor"
    /\ LET c == call[w]
           found == /\ getStudentDetails(c.student) # "none"
                    /\ getCounselorDetails(c.counselor) # "none"
       IN  IF c.snap # "accepted"
           THEN /\ call' = [call EXCEPT ![w] = Done(c, "OK", "none", NoId)]
                /\ tx' = tx
           ELSE IF ~found
           THEN /\ call' = [call EXCEPT ![w] =
                               Done(c, "USER_DETAILS_NOT_FOUND", "none", NoId)]
                /\ tx' = tx
           ELSE /\ call' = [call EXCEPT ![w] = [c EXCEPT !.pc = "fin_update"]]
                /\ tx' = [tx EXCEPT ![w] = [NoTx EXCEPT !.open = TRUE, !.held = TRUE]]
    /\ UNCHANGED <<now, requests, appointments, events>>
    /\ UNCHANGED slotCall

\* counselor service, in the transaction: updateCounselorResponseWithManager
CounselorFinalizeUpdate(w) ==
    /\ call[w].pc = "fin_update"
    /\ ~RowLocked(w, call[w].id)
    /\ LET c == call[w]
           updatedRequest ==
               updateCounselorResponseWithManager(requests[c.id], "accepted", now)
       IN  /\ tx' = [tx EXCEPT ![w].reqId = c.id, ![w].reqRow = updatedRequest]
           /\ call' = [call EXCEPT ![w] = [c EXCEPT !.pc = "fin_recheck"]]
    /\ UNCHANGED <<now, requests, appointments, events>>
    /\ UNCHANGED slotCall

\* re-check of isTimeSlotAvailable after the transaction has started; on
\* failure the catch block rolls the transaction back and rethrows
FinalizeRecheck(w) ==
    /\ call[w].pc = "fin_recheck"
    /\ LET c == call[w]
       IN  IF isTimeSlotAvailable(c.counselor, c.start, c.end, NoId)
           THEN /\ call' = [call EXCEPT ![w] = [c EXCEPT !.pc = "fin_create"]]
                /\ tx' = tx
           ELSE /\ call' = [call EXCEPT ![w] =
                               Done(c, "TIME_SLOT_UNAVAILABLE", "race", NoId)]
                /\ tx' = [tx EXCEPT ![w] = NoTx]
    /\ UNCHANGED <<now, requests, appointments, events>>
    /\ UNCHANGED slotCall

\* an insert waits while another open transaction holds an uncommitted row
\* with the same request_id
InsertBlocked(w, request_id) ==
    \E v \in Workers \ {w} : RequestHasAppointment(tx[v].appts, request_id)

AppointmentData(c) ==
    [student_id |-> c.student, counselor_id |-> c.counselor,
     department |-> requests[c.id].department, agenda |-> c.agenda,
     proposed_start |-> c.start, proposed_end |-> c.end]

\* student service: createAppointment, saved at once by the repository
StudentFinalizeCreate(w) ==
    /\ call[w].pc = "fin_create"
    /\ call[w].role = "student"
    /\ ~InsertBlocked(w, call[w].id)
    /\ LET c == call[w]
           id == FreshAppointmentId
       IN  IF RequestHasAppointment(appointments, c.id)
           THEN /\ call' = [call EXCEPT ![w] =
                               Done(c, "QueryFailedError", "unique", NoId)]
                /\ tx' = [tx EXCEPT ![w] = NoTx]
                /\ appointments' = appointments
           ELSE /\ appointments' =
                       appointments \cup {createAppointment(id, c.id, AppointmentData(c))}
                /\ call' = [call EXCEPT ![w] = [c EXCEPT !.pc = "fin_event", !.appt = id]]
                /\ tx' = tx
    /\ UNCHANGED <<now, requests, events>>
    /\ UNCHANGED slotCall

\* counselor service: createAppointmentWithManager, inside the transaction
CounselorFinalizeCreate(w) ==
    /\ call[w].pc = "fin_create"
    /\ call[w].role = "counselor"
    /\ ~InsertBlocked(w, call[w].id)
    /\ LET c == call[w]
           id == FreshAppointmentId
       IN  IF RequestHasAppointment(appointments, c.id)
           THEN /\ call' = [call EXCEPT ![w] =
                               Done(c, "QueryFailedError", "unique", NoId)]
                /\ tx' = [tx EXCEPT ![w] = NoTx]
           ELSE /\ tx' = [tx EXCEPT ![w].appts =
                            {createAppointmentWithManager(id, c.id, AppointmentData(c))}]
                /\ call' = [call EXCEPT ![w] = [c EXCEPT !.pc = "fin_event", !.appt = id]]
    /\ UNCHANGED <<now, requests, appointments, events>>
    /\ UNCHANGED slotCall

\* googleCalendarRepository.createEvent: it returns the inserted event, or
\* throws; the catch block then rolls the transaction back and rethrows
FinalizeCreateEvent(w) ==
    /\ call[w].pc = "fin_event"
    /\ LET c == call[w]
           id == FreshEventId
           eventData == [appointment_id |-> c.appt,
                         department |-> requests[c.id].department,
                         start_time |-> c.start, end_time |-> c.end]
       IN  \/ /\ events' = events \cup {createEvent(id, eventData)}
              /\ call' = [call EXCEPT ![w] = [c EXCEPT !.pc = "fin_attach", !.ev = id]]
              /\ tx' = tx
           \/ /\ events' = events
              /\ call' = [call EXCEPT ![w] = Done(c, "Error", "event", NoId)]
              /\ tx' = [tx EXCEPT ![w] = NoTx]
    /\ UNCHANGED <<now, requests, appointments>>
    /\ UNCHANGED slotCall

\* student service: updateGoogleEventId on the repository's own connection
StudentFinalizeAttach(w) ==
    /\ call[w].pc = "fin_attach"
    /\ call[w].role = "student"
    /\ appointments' = updateGoogleEventId(appointments, call[w].appt, call[w].ev)
    /\ call' = [call EXCEPT ![w].pc = "fin_commit"]
    /\ UNCHANGED <<now, requests, events, tx>>
    /\ UNCHANGED slotCall

\* counselor service: updateGoogleEventIdWithManager, inside the transaction
CounselorFinalizeAttach(w) ==
    /\ call[w].pc = "fin_attach"
    /\ call[w].role = "counselor"
    /\ tx' = [tx EXCEPT ![w].appts =
                 updateGoogleEventId(tx[w].appts, call[w].appt, call[w].ev)]
    /\ call' = [call EXCEPT ![w].pc = "fin_commit"]
    /\ UNCHANGED <<now, requests, appointments, events>>
    /\ UNCHANGED slotCall

\* queryRunner.commitTransaction: the transaction's rows become visible
FinalizeCommit(w) ==
    /\ call[w].pc = "fin_commit"
    /\ requests' = IF tx[w].reqId # NoId
                   THEN [requests EXCEPT ![tx[w].reqId] = tx[w].reqRow]
                   ELSE requests
    /\ appointments' = appointments \cup tx[w].appts
    /\ tx' = [tx EXCEPT ![w] = NoTx]
    /\ call' = [call EXCEPT ![w] = Done(call[w], "OK", "none", call[w].appt)]
    /\ UNCHANGED <<now, events>>
    /\ UNCHANGED slotCall

\* an accept about to create its query runner: both sides have accepted and
\* both users were found
EntersFinalization(w) ==
    LET c == call[w]
    IN  /\ c.pc = "acc_record"
        /\ getStudentDetails(c.student) # "none"
        /\ getCounselorDetails(c.counselor) # "none"
        /\ IF c.role = "student"
           THEN requests[c.id].counselor_response = "accepted"
           ELSE c.snap = "accepted"

\* the request rows once the accept has reached createQueryRunner: the
\* student service has saved its response by then, the counselor service not
RequestsAtFinalization(w) ==
    IF call[w].role = "student"
    THEN [requests EXCEPT ![call[w].id] =
             updateStudentResponse(requests[call[w].id], "accepted", now)]
    ELSE requests

\* queryRunner.connect() throws: no connection was taken from the pool; the
\* call is outside the try block and the error leaves the method
ConnectFails(w) ==
    /\ EntersFinalization(w)
    /\ ~RowLocked(w, call[w].id)
    /\ requests' = RequestsAtFinalization(w)
    /\ call' = [call EXCEPT ![w] = Done(call[w], "Error", "connect", NoId)]
    /\ UNCHANGED <<now, appointments, events, tx>>
    /\ UNCHANGED slotCall

\* queryRunner.startTransaction() throws after connect() took a connection:
\* the call is outside the try block, so neither catch nor finally runs
StartTransactionFails(w) ==
    /\ EntersFinalization(w)
    /\ ~RowLocked(w, call[w].id)
    /\ requests' = RequestsAtFinalization(w)
    /\ tx' = [tx EXCEPT ![w] = [NoTx EXCEPT !.held = TRUE]]
    /\ call' = [call EXCEPT ![w] = Done(call[w], "Error", "start", NoId)]
    /\ UNCHANGED <<now, appointments, events>>
    /\ UNCHANGED slotCall

\* queryRunner.commitTransaction() throws: the catch block rolls back and
\* rethrows, the finally block releases the query runner. The calendar event
\* stays behind; the guard bounds the number of events left behind.
CommitFails(w) ==
    /\ call[w].pc = "fin_commit"
    /\ Cardinality(events) <= MaxRequests
    /\ tx' = [tx EXCEPT ![w] = NoTx]
    /\ call' = [call EXCEPT ![w] = Done(call[w], "Error", "commit", NoId)]
    /\ UNCHANGED <<now, requests, appointments, events>>
    /\ UNCHANGED slotCall

\* ==================================== declineAppointmentRequest (both services)
StudentDeclineAppointmentRequest(w, userId, requestId) ==
    /\ call[w].pc = "idle"
    /\ LET c == [Idle EXCEPT !.op = "declineAppointmentRequest", !.role = "student",
                             !.user = userId, !.id = requestId]
           chk == StudentAcceptChecks(requestId)
       IN  call' = [call EXCEPT ![w] =
                       IF chk = "OK" THEN [c EXCEPT !.pc = "dec_record"]
                       ELSE Done(c, chk, "none", NoId)]
    /\ UNCHANGED <<now, requests, appointments, events, tx>>
    /\ UNCHANGED slotCall

CounselorDeclineAppointmentRequest(w, userId, requestId) ==
    /\ call[w].pc = "idle"
    /\ LET c == [Idle EXCEPT !.op = "declineAppointmentRequest", !.role = "counselor",
                             !.user = userId, !.id = requestId]
           chk == CounselorAcceptChecks(requestId)
       IN  call' = [call EXCEPT ![w] =
                       IF chk = "OK" THEN [c EXCEPT !.pc = "dec_record"]
                       ELSE Done(c, chk, "none", NoId)]
    /\ UNCHANGED <<now, requests, appointments, events, tx>>
    /\ UNCHANGED slotCall

\* updateStudentResponse / updateCounselorResponse with "declined"
DeclineRecord(w) ==
    /\ call[w].pc = "dec_record"
    /\ ~RowLocked(w, call[w].id)
    /\ LET c == call[w]
           updatedRequest ==
               IF c.role = "student"
               THEN updateStudentResponse(requests[c.id], "declined", now)
               ELSE updateCounselorResponse(requests[c.id], "declined", now)
       IN  /\ requests' = [requests EXCEPT ![c.id] = updatedRequest]
           /\ call' = [call EXCEPT ![w] = Done(c, "OK", "none", c.id)]
    /\ UNCHANGED <<now, appointments, events, tx>>
    /\ UNCHANGED slotCall

\* ============================================ cancelAppointment (both services)
getAppointmentById(appointment_id) ==
    {a \in appointments : a.appointment_id = appointment_id}

StudentCancelAppointment(w, userId, appointmentId) ==
    /\ call[w].pc = "idle"
    /\ LET c == [Idle EXCEPT !.op = "cancelAppointment", !.role = "student",
                             !.user = userId, !.appt = appointmentId]
           found == getAppointmentById(appointmentId)
       IN  call' = [call EXCEPT ![w] =
                       IF found = {} THEN Done(c, "APPOINTMENT_NOT_FOUND", "none", NoId)
                       ELSE IF \E a \in found : a.student_id # userId
                       THEN Done(c, "UNAUTHORIZED_ACTION", "none", NoId)
                       ELSE [c EXCEPT !.pc = "can_record"]]
    /\ UNCHANGED <<now, requests, appointments, events, tx>>
    /\ UNCHANGED slotCall

\* a variant of the counselor-side cancelAppointment without the comparison
\* of the caller with the appointment's counselor
CounselorCancelAppointment_AnyCaller(w, userId, appointmentId) ==
    /\ call[w].pc = "idle"
    /\ LET c == [Idle EXCEPT !.op = "cancelAppointment", !.role = "counselor",
                             !.user = userId, !.appt = appointmentId]
           found == getAppointmentById(appointmentId)
       IN  call' = [call EXCEPT ![w] =
                       IF found = {} THEN Done(c, "APPOINTMENT_NOT_FOUND", "none", NoId)
                       ELSE [c EXCEPT !.pc = "can_record"]]
    /\ UNCHANGED <<now, requests, appointments, events, tx>>
    /\ UNCHANGED slotCall

CounselorCancelAppointment(w, userId, appointmentId) ==
    /\ call[w].pc = "idle"
    /\ LET c == [Idle EXCEPT !.op = "cancelAppointment", !.role = "counselor",
                             !.user = userId, !.appt = appointmentId]
           found == getAppointmentById(appointmentId)
       IN  call' = [call EXCEPT ![w] =
                       IF found = {} THEN Done(c, "APPOINTMENT_NOT_FOUND", "none", NoId)
                       ELSE IF \E a \in found : a.counselor_id # userId
                       THEN Done(c, "UNAUTHORIZED_ACTION", "none", NoId)
                       ELSE [c EXCEPT !.pc = "can_record"]]
    /\ UNCHANGED <<now, requests, appointments, events, tx>>
    /\ UNCHANGED slotCall

\* appointmentsRepository.cancelAppointment(appointmentId, role)
CancelRecord(w) ==
    /\ call[w].pc = "can_record"
    /\ LET c == call[w]
       IN  IF getAppointmentById(c.appt) = {}
           THEN /\ appointments' = appointments
                /\ call' = [call EXCEPT ![w] =
                               Done(c, "APPOINTMENT_CANCELLATION_FAILED", "none", NoId)]
           ELSE /\ appointments' = cancelAppointment(appointments, c.appt, c.role, now)
                /\ call' = [call EXCEPT ![w] = Done(c, "OK", "none", c.appt)]
    /\ UNCHANGED <<now, requests, events, tx>>
    /\ UNCHANGED slotCall

\* ============================== getAppointmentRequest / getAppointment by id
\* student service: getRequestById and the not-found check, nothing else
StudentGetAppointmentRequest(w, userId, requestId) ==
    /\ call[w].pc = "idle"
    /\ LET c == [Idle EXCEPT !.op = "getAppointmentRequest", !.role = "student",
                             !.user = userId, !.id = requestId]
       IN  call' = [call EXCEPT ![w] =
                       IF requestId \notin RequestIdsInStore
                       THEN Done(c, "REQUEST_NOT_FOUND", "none", NoId)
                       ELSE Done(c, "OK", "none", requestId)]
    /\ UNCHANGED <<now, requests, appointments, events, tx>>
    /\ UNCHANGED slotCall

\* counselor service: the row's counselor_id is compared with the caller
CounselorGetAppointmentRequest(w, userId, requestId) ==
    /\ call[w].pc = "idle"
    /\ LET c == [Idle EXCEPT !.op = "getAppointmentRequest", !.role = "counselor",
                             !.user = userId, !.id = requestId]
       IN  call' = [call EXCEPT ![w] =
                       IF requestId \notin RequestIdsInStore
                       THEN Done(c, "REQUEST_NOT_FOUND", "none", NoId)
                       ELSE IF requests[requestId].counselor_id # userId
                       THEN Done(c, "UNAUTHORIZED_ACTION", "none", NoId)
                       ELSE Done(c, "OK", "none", requestId)]
    /\ UNCHANGED <<now, requests, appointments, events, tx>>
    /\ UNCHANGED slotCall

\* student service: getAppointmentById and the not-found check, nothing else
StudentGetAppointment(w, userId, appointmentId) ==
    /\ call[w].pc = "idle"
    /\ LET c == [Idle EXCEPT !.op = "getAppointment", !.role = "student",
                             !.user = userId, !.appt = appointmentId]
       IN  call' = [call EXCEPT ![w] =
                       IF getAppointmentById(appointmentId) = {}
                       THEN Done(c, "APPOINTMENT_NOT_FOUND", "none", NoId)
                       ELSE Done(c, "OK", "none", appointmentId)]
    /\ UNCHANGED <<now, requests, appointments, events, tx>>
    /\ UNCHANGED slotCall

\* counselor service: the row's counselor_id is compared with the caller
CounselorGetAppointment(w, userId, appointmentId) ==
    /\ call[w].pc = "idle"
    /\ LET c == [Idle EXCEPT !.op = "getAppointment", !.role = "counselor",
                             !.user = userId, !.appt = appointmentId]
           found == getAppointmentById(appointmentId)
       IN  call' = [call EXCEPT ![w] =
                       IF found = {}
                       THEN Done(c, "APPOINTMENT_NOT_FOUND", "none", NoId)
                       ELSE IF \E a \in found : a.counselor_id # userId
                       THEN Done(c, "UNAUTHORIZED_ACTION", "none", NoId)
                       ELSE Done(c, "OK", "none", appointmentId)]
    /\ UNCHANGED <<now, requests, appointments, events, tx>>
    /\ UNCHANGED slotCall

\* =================================================== store sweep and the clock
\* a variant of Expires that does not look at the status
Expires_AnyStatus(r, expirationHours) ==
    r.created_at < now - expirationHours

\* AppointmentRequestRepository.markExpiredRequests: one UPDATE statement
Expires(r, expirationHours) ==
    r.status = "pending" /\ r.created_at < now - expirationHours

MarkExpiredRequests(expirationHours) ==
    /\ \A i \in RequestIdsInStore :
          Expires(requests[i], expirationHours) => ~RowLocked(0, i)
    /\ requests' = [i \in RequestIdsInStore |->
                      IF Expires(requests[i], expirationHours)
                      THEN [requests[i] EXCEPT !.status = "expired",
                                               !.finalized_at = now]
                      ELSE requests[i]]
    /\ UNCHANGED <<now, appointments, events, tx, call>>
    /\ UNCHANGED slotCall

\* the row that updateStatus saves, from the row it found: the status is
\* overwritten, and finalized_at is stamped when the new status is not
\* pending and the row has no finalized_at yet
updateStatus(request, status, t) ==
    LET r == [request EXCEPT !.status = status]
    IN  IF status # "pending" /\ request.finalized_at = Null
        THEN [r EXCEPT !.finalized_at = t]
        ELSE r

\* AppointmentRequestRepository.updateStatus called on the store directly,
\* as the expiry sweep is: a request that is not found is left alone
UpdateStatus(request_id, status) ==
    /\ request_id \in RequestIdsInStore
    /\ ~RowLocked(0, request_id)
    /\ requests' = [requests EXCEPT
                      ![request_id] = updateStatus(requests[request_id], status, now)]
    /\ UNCHANGED <<now, appointments, events, tx, call>>
    /\ UNCHANGED slotCall

Tick ==
    /\ now < MaxClock
    /\ now' = now + 1
    /\ UNCHANGED <<requests, appointments, events, tx, call>>
    /\ UNCHANGED slotCall

\* the call's result has been handed to the controller
Return(w) ==
    /\ call[w].pc = "done"
    /\ call' = [call EXCEPT ![w] = Idle]
    /\ UNCHANGED <<now, requests, appointments, events, tx>>
    /\ UNCHANGED slotCall

\* ================================================================== Next
ExpirationHours == {0}
AppointmentIds == 1..MaxRequests

\* the steps of a call in progress
CallStep(w) ==
    \/ RequestCheckDb(w)
    \/ RequestCheckCalendar(w)
    \/ RequestCreate(w)
    \/ AcceptCheckDb(w)
    \/ AcceptCheckCalendar(w)
    \/ StudentAcceptRecord(w)
    \/ CounselorAcceptRecord(w)
    \/ CounselorFinalizeUpdate(w)
    \/ FinalizeRecheck(w)
    \/ StudentFinalizeCreate(w)
    \/ CounselorFinalizeCreate(w)
    \/ FinalizeCreateEvent(w)
    \/ StudentFinalizeAttach(w)
    \/ CounselorFinalizeAttach(w)
    \/ FinalizeCommit(w)
    \/ DeclineRecord(w)
    \/ CancelRecord(w)
    \/ Return(w)

\* calls arriving with the user ids S (students) and C (counselors)
CallStart(w, S, C) ==
    \/ \E u \in S, r \in 1..MaxRequests : StudentAcceptAppointmentRequest(w, u, r)
    \/ \E u \in C, r \in 1..MaxRequests : CounselorAcceptAppointmentRequest(w, u, r)
    \/ \E u \in S, r \in 1..MaxRequests : StudentDeclineAppointmentRequest(w, u, r)
    \/ \E u \in C, r \in 1..MaxRequests : CounselorDeclineAppointmentRequest(w, u, r)
    \/ \E u \in S, a \in AppointmentIds : StudentCancelAppointment(w, u, a)
    \/ \E u \in C, a \in AppointmentIds : CounselorCancelAppointment(w, u, a)

Environment ==
    \/ Tick
    \/ \E h \in ExpirationHours : MarkExpiredRequests(h)

\* Concurrent calls of one student and one counselor at one instant of the
\* clock: the student proposes [0, 2), the counselor the overlapping [1, 2)
Next ==
    \E w \in Workers :
        \/ StudentRequestAppointment(w, "s1", "counseling", "c1", 0, 2)
        \/ CounselorRequestAppointment(w, "c1", "counseling", "s1", 1, 2)
        \/ CallStart(w, {"s1"}, {"c1"})
        \/ CallStep(w)

Spec == Init /\ [][Next]_vars

\* One call at a time, with every combination of the arguments
NextSeq ==
    \/ Environment
    \/ \E u \in StudentIds, a \in Agendas, o \in CounselorIds, s \in Times, e \in Times :
          StudentRequestAppointment(1, u, a, o, s, e)
    \/ \E u \in CounselorIds, a \in Agendas, o \in StudentIds, s \in Times, e \in Times :
          CounselorRequestAppointment(1, u, a, o, s, e)
    \/ CallStart(1, StudentIds, CounselorIds)
    \/ CallStep(1)

SpecSeq == Init /\ [][NextSeq]_vars

\* One call at a time of student s1 and counselor c1, with the query runner
\* raising errors
NextTx ==
    \/ StudentRequestAppointment(1, "s1", "counseling", "c1", 0, 1)
    \/ CounselorRequestAppointment(1, "c1", "counseling", "s1", 0, 1)
    \/ CallStart(1, {"s1"}, {"c1"})
    \/ CallStep(1)
    \/ ConnectFails(1)
    \/ StartTransactionFails(1)
    \/ CommitFails(1)

SpecTx == Init /\ [][NextTx]_vars

\* One call at a time of student s1 and counselor c1, with the clock, the
\* expiry sweep and updateStatus acting on the store between the steps
RequestStatuses == {"pending", "both_confirmed", "declined", "expired"}

NextStore ==
    \/ Environment
    \/ StudentRequestAppointment(1, "s1", "counseling", "c1", 0, 1)
    \/ CounselorRequestAppointment(1, "c1", "counseling", "s1", 0, 1)
    \/ CallStart(1, {"s1"}, {"c1"})
    \/ CallStep(1)
    \/ \E i \in 1..MaxRequests, status \in RequestStatuses : UpdateStatus(i, status)

SpecStore == Init /\ [][NextStore]_vars

\* Requests for the available slots of a department, one at a time
NextSlots ==
    \/ StudentGetDepartmentAvailableSlots
    \/ CounselorGetDepartmentAvailableSlots
    \/ SlotsReturn

SpecSlots == Init /\ [][NextSlots]_vars

\* One call at a time: student s1 and counselor c1 propose, respond and
\* cancel, and the students s1, s2 and the counselors c1, c2 read requests
\* and appointments by id
Readers == {"s1", "s2", "c1", "c2"}

NextRead ==
    \/ StudentRequestAppointment(1, "s1", "counseling", "c1", 0, 1)
    \/ CounselorRequestAppointment(1, "c1", "counseling", "s1", 0, 1)
    \/ CallStart(1, {"s1"}, {"c1"})
    \/ CallStep(1)
    \/ \E u \in Readers \cap StudentIds, r \in 1..MaxRequests :
          StudentGetAppointmentRequest(1, u, r)
    \/ \E u \in Readers \cap CounselorIds, r \in 1..MaxRequests :
          CounselorGetAppointmentRequest(1, u, r)
    \/ \E u \in Readers \cap StudentIds, a \in AppointmentIds :
          StudentGetAppointment(1, u, a)
    \/ \E u \in Readers \cap CounselorIds, a \in AppointmentIds :
          CounselorGetAppointment(1, u, a)

SpecRead == Init /\ [][NextRead]_vars

\* ================================================================ claims
Terminal(status) == status \in {"declined", "both_confirmed", "expired"}

AppointmentsOf(request_id) == {a \in appointments : a.request = request_id}

\* no call is between two of its steps
Quiescent == \A w \in Workers : call[w].pc \in {"idle", "done"}

\* an accept of the request is between two of its steps
AcceptInProgress(request_id) ==
    \E w \in Workers :
        /\ call[w].op = "acceptAppointmentRequest"
        /\ call[w].id = request_id
        /\ call[w].pc \notin {"idle", "done"}

\* C1: of two distinct requests that name the same counselor and whose
\* proposed intervals overlap, at most one has status both_confirmed once the
\* accepts of the two have ended, however their steps were interleaved.
C1_AtMostOneBothConfirmed ==
    \A i \in RequestIdsInStore, j \in RequestIdsInStore :
        ( /\ i # j
          /\ requests[i].counselor_id = requests[j].counselor_id
          /\ Overlaps(requests[i].proposed_start, requests[i].proposed_end,
                      requests[j].proposed_start, requests[j].proposed_end)
          /\ ~AcceptInProgress(i)
          /\ ~AcceptInProgress(j) )
        => ~( /\ requests[i].status = "both_confirmed"
              /\ requests[j].status = "both_confirmed" )

\* C2: no two appointments of one counselor with cancelled_at = null have
\* overlapping half-open intervals [start_time, end_time).
C2_NoDoubleBooking ==
    \A a \in appointments, b \in appointments :
        ( /\ a # b
          /\ a.counselor_id = b.counselor_id
          /\ a.cancelled_at = Null
          /\ b.cancelled_at = Null )
        => ~Overlaps(a.start_time, a.end_time, b.start_time, b.end_time)

\* C3: once an accept has returned the error of a failed createEvent, the
\* store holds no appointment for the request (student side and counselor side).
C3_NoAppointmentAfterEventFailure ==
    \A w \in Workers :
        ( /\ call[w].op = "acceptAppointmentRequest"
          /\ call[w].pc = "done"
          /\ call[w].why = "event" )
        => AppointmentsOf(call[w].id) = {}

\* C4: when an accept that entered finalization fails (slot re-check or
\* event creation), the request is as before the call: status pending and
\* the responder's response field pending (a request that the expiry sweep
\* reached during the call aside).
C4_FailedFinalizationLeavesRequest ==
    [][\A w \in Workers :
          ( /\ call[w].pc # "done"
            /\ call'[w].op = "acceptAppointmentRequest"
            /\ call'[w].pc = "done"
            /\ call'[w].why \in {"race", "event"}
            /\ requests'[call'[w].id].status # "expired" )
          => /\ requests'[call'[w].id].status = "pending"
             /\ IF call'[w].role = "student"
                THEN requests'[call'[w].id].student_response = "pending"
                ELSE requests'[call'[w].id].counselor_response = "pending"]_vars

\* C5: once the status of a request is declined, both_confirmed or expired,
\* no step of any call changes its status or either response field.
C5_TerminalIsFinal ==
    [][\A i \in RequestIdsInStore :
          Terminal(requests[i].status)
          => /\ requests'[i].status = requests[i].status
             /\ requests'[i].student_response = requests[i].student_response
             /\ requests'[i].counselor_response = requests[i].counselor_response]_vars

\* C6: at most one appointment row references a request, also when two
\* accepts of the same request run concurrently.
C6_OneAppointmentPerRequest ==
    \A i \in RequestIdsInStore : Cardinality(AppointmentsOf(i)) <= 1

\* two accepts of one request passed every check; the second insert was refused
C6_Witness ==
    \E w \in Workers :
        /\ call[w].pc = "done"
        /\ call[w].why = "unique"
        /\ Cardinality(AppointmentsOf(call[w].id)) = 1

\* C7: between operations, a request is both_confirmed exactly when an
\* appointment referencing it exists.
C7_ConfirmedIffAppointment ==
    Quiescent =>
        \A i \in RequestIdsInStore :
            requests[i].status = "both_confirmed" <=> AppointmentsOf(i) # {}

\* the step in which a requestAppointment call saves its request row
Creates(w) == call[w].pc = "req_create" /\ call'[w].pc = "done"

\* C8: the request row saved by a successful requestAppointment has status
\* pending, finalized_at null, the initiator's response accepted and the
\* counterpart's response pending, for either initiator.
C8_SelfAcceptance ==
    [][\A w \in Workers :
          Creates(w) =>
            LET r == requests'[call'[w].ret]
            IN  /\ call'[w].res = "OK"
                /\ r.status = "pending"
                /\ r.finalized_at = Null
                /\ r.created_by = call[w].role
                /\ IF call[w].role = "student"
                   THEN r.student_response = "accepted" /\ r.counselor_response = "pending"
                   ELSE r.counselor_response = "accepted" /\ r.student_response = "pending"]_vars

\* a student's and a counselor's proposal have both been saved
C8_Witness ==
    /\ Len(requests) = 2
    /\ requests[1].created_by = "student"
    /\ requests[2].created_by = "counselor"
    /\ \E w \in Workers : call[w].op = "requestAppointment" /\ call[w].res = "OK"

\* the request has the call's initiator, counterparty, interval and agenda
SameProposal(r, c) ==
    /\ r.created_by = c.role
    /\ r.student_id = c.student
    /\ r.counselor_id = c.counselor
    /\ r.proposed_start = c.start
    /\ r.proposed_end = c.end
    /\ r.agenda = c.agenda

\* C9: a proposal identical in (initiator, counterparty, interval, agenda) to
\* a stored request is refused with DUPLICATE_REQUEST and stored no second
\* time; a proposal between two users of one department that is refused with
\* DUPLICATE_REQUEST has the counterparty of some stored request with its
\* initiator, interval and agenda.
C9_DuplicateRejection ==
    /\ \A i \in RequestIdsInStore, j \in RequestIdsInStore :
          (i # j) =>
            ~( /\ requests[i].created_by = requests[j].created_by
               /\ requests[i].student_id = requests[j].student_id
               /\ requests[i].counselor_id = requests[j].counselor_id
               /\ requests[i].proposed_start = requests[j].proposed_start
               /\ requests[i].proposed_end = requests[j].proposed_end
               /\ requests[i].agenda = requests[j].agenda )
    /\ \A w \in Workers :
          ( /\ call[w].op = "requestAppointment"
            /\ call[w].pc = "done"
            /\ call[w].res = "DUPLICATE_REQUEST"
            /\ getStudentDetails(call[w].student) # "none"
            /\ getStudentDetails(call[w].student) = getCounselorDetails(call[w].counselor) )
          => \E i \in RequestIdsInStore : SameProposal(requests[i], call[w])

\* the first precondition of requestAppointment that fails for the arguments
\* of call record c in the current state, in the order of the claim
InitiatorNotFound(c) ==
    IF c.role = "student" THEN getStudentDetails(c.student) = "none"
    ELSE getCounselorDetails(c.counselor) = "none"

CounterpartyNotFound(c) ==
    IF c.role = "student" THEN getCounselorDetails(c.counselor) = "none"
    ELSE getStudentDetails(c.student) = "none"

DuplicateExists(c) ==
    IF c.role = "student"
    THEN findRequestsByStudentAndTime(c.student, c.start, c.end, c.agenda) # {}
    ELSE findRequestsByCounselorAndTime(c.counselor, c.start, c.end, c.agenda) # {}

FirstFailure(c) ==
    IF c.end <= c.start THEN "INVALID_TIME_RANGE"
    ELSE IF c.start < now THEN "PAST_APPOINTMENT"
    ELSE IF DuplicateExists(c) THEN "DUPLICATE_REQUEST"
    ELSE IF InitiatorNotFound(c)
         THEN (IF c.role = "student" THEN "STUDENT_NOT_FOUND" ELSE "COUNSELOR_NOT_FOUND")
    ELSE IF CounterpartyNotFound(c)
         THEN (IF c.role = "student" THEN "COUNSELOR_NOT_FOUND" ELSE "STUDENT_NOT_FOUND")
    ELSE IF getStudentDetails(c.student) # getCounselorDetails(c.counselor)
         THEN "DIFFERENT_DEPARTMENT"
    ELSE "none"

\* C10: requestAppointment reports the first failing precondition in the
\* order time range, past start, duplicate, initiator, counterparty,
\* department, store availability, calendar availability; a call that fails
\* saves no request.
C10_PreconditionOrder ==
    [][\A w \in Workers :
          LET c == call'[w]
          IN  /\ (call[w].pc = "idle" /\ c.op = "requestAppointment")
                 => /\ c.res = FirstFailure(c)
                    /\ (c.res = "none") = (c.pc = "req_db")
              /\ (call[w].pc = "req_db" /\ c.pc # "req_db")
                 => IF isTimeSlotAvailable(c.counselor, c.start, c.end, NoId)
                    THEN c.pc = "req_cal"
                    ELSE c.res = "TIME_SLOT_UNAVAILABLE" /\ c.why = "db"
              /\ (call[w].pc = "req_cal" /\ c.pc = "done")
                 => /\ c.res = "TIME_SLOT_UNAVAILABLE" /\ c.why = "calendar"
                    /\ BusyPeriods(getCounselorDetails(c.counselor), c.start, c.end) # {}
              /\ (call[w].pc # "done" /\ c.op = "requestAppointment"
                                       /\ c.pc = "done" /\ c.res # "OK")
                 => requests' = requests]_vars

\* a proposal failing several preconditions at once: the counselor has an
\* overlapping appointment and the department calendar is busy as well
C10_Witness ==
    \E w \in Workers :
        /\ call[w].op = "requestAppointment"
        /\ call[w].pc = "done"
        /\ call[w].res = "TIME_SLOT_UNAVAILABLE"
        /\ call[w].why = "db"
        /\ BusyPeriods(getCounselorDetails(call[w].counselor),
                       call[w].start, call[w].end) # {}

\* the response field of the side that the call record c answers for
OwnResponse(r, c) ==
    IF c.role = "student" THEN r.student_response ELSE r.counselor_response

\* C11: an accept or a decline of a request whose status is not pending is
\* refused with INVALID_REQUEST_STATUS, and of a pending request whose
\* responding side has already answered with INVALID_STUDENT_RESPONSE /
\* INVALID_COUNSELOR_RESPONSE; either way the requests and the appointments
\* are unchanged.
C11_RespondPreconditions ==
    [][\A w \in Workers :
          LET c == call'[w]
          IN  ( /\ call[w].pc = "idle"
                /\ c.op \in {"acceptAppointmentRequest", "declineAppointmentRequest"}
                /\ c.id \in RequestIdsInStore )
              => /\ requests[c.id].status # "pending"
                    => /\ c.pc = "done"
                       /\ c.res = "INVALID_REQUEST_STATUS"
                       /\ requests' = requests
                       /\ appointments' = appointments
                 /\ ( /\ requests[c.id].status = "pending"
                      /\ OwnResponse(requests[c.id], c) # "pending" )
                    => /\ c.pc = "done"
                       /\ c.res = IF c.role = "student"
                                  THEN "INVALID_STUDENT_RESPONSE"
                                  ELSE "INVALID_COUNSELOR_RESPONSE"
                       /\ requests' = requests
                       /\ appointments' = appointments]_vars

\* a student's accept of a both_confirmed request has been refused, the
\* request and its appointment still in the store
C11_Witness ==
    \E w \in Workers :
        /\ call[w].op = "acceptAppointmentRequest"
        /\ call[w].role = "student"
        /\ call[w].pc = "done"
        /\ call[w].res = "INVALID_REQUEST_STATUS"
        /\ call[w].id \in RequestIdsInStore
        /\ requests[call[w].id].status = "both_confirmed"
        /\ AppointmentsOf(call[w].id) # {}

\* the counselor has a non-cancelled appointment overlapping [start, end)
CounselorBusy(counselor_id, start, end) ==
    \E a \in appointments :
        /\ a.counselor_id = counselor_id
        /\ a.cancelled_at = Null
        /\ start < a.end_time
        /\ a.start_time < end

\* C12: an accept that finds an overlapping non-cancelled appointment of the
\* counselor, or whose free/busy query reports a busy period in the proposed
\* interval, fails with TIME_SLOT_UNAVAILABLE; the response is not recorded
\* (the request row is untouched, the responder's field still pending) and
\* no appointment is created.
C12_AcceptPreCheck ==
    [][\A w \in Workers :
          LET c == call[w]
              d == call'[w]
          IN  /\ ( /\ c.pc = "acc_db"
                   /\ d.pc # "acc_db"
                   /\ CounselorBusy(c.counselor, c.start, c.end) )
                 => /\ d.pc = "done"
                    /\ d.res = "TIME_SLOT_UNAVAILABLE"
                    /\ requests' = requests
                    /\ OwnResponse(requests'[c.id], c) = "pending"
                    /\ appointments' = appointments
              /\ ( /\ AcceptCalendarQuery(w, TRUE)
                   /\ BusyPeriods(requests[c.id].department, c.start, c.end) # {} )
                 => /\ d.pc = "done"
                    /\ d.res = "TIME_SLOT_UNAVAILABLE"
                    /\ requests' = requests
                    /\ OwnResponse(requests'[c.id], c) = "pending"
                    /\ appointments' = appointments]_vars

\* an accept has been refused because the department calendar is busy
\* although the counselor has no appointment in the interval
C12_Witness ==
    \E w \in Workers :
        /\ call[w].op = "acceptAppointmentRequest"
        /\ call[w].pc = "done"
        /\ call[w].res = "TIME_SLOT_UNAVAILABLE"
        /\ call[w].why = "calendar"
        /\ requests[call[w].id].status = "pending"
        /\ OwnResponse(requests[call[w].id], call[w]) = "pending"
        /\ ~CounselorBusy(call[w].counselor, call[w].start, call[w].end)

\* the response field of the side that the call record c does not answer for
OtherResponse(r, c) ==
    IF c.role = "student" THEN r.counselor_response ELSE r.student_response

\* C13: a decline that succeeds sets the responder's response field and the
\* status to declined and finalized_at to a time, leaves the other side's
\* response field as it was, and creates no appointment and no calendar event.
C13_DeclineEffect ==
    [][\A w \in Workers :
          LET c == call[w]
              d == call'[w]
          IN  ( /\ c.op = "declineAppointmentRequest"
                /\ c.pc # "done"
                /\ d.pc = "done"
                /\ d.res = "OK" )
              => /\ OwnResponse(requests'[c.id], c) = "declined"
                 /\ requests'[c.id].status = "declined"
                 /\ requests'[c.id].finalized_at # Null
                 /\ OtherResponse(requests'[c.id], c) = OtherResponse(requests[c.id], c)
                 /\ appointments' = appointments
                 /\ events' = events]_vars

\* a counselor has declined a student's proposal, a student a counselor's
C13_Witness ==
    /\ \E w \in Workers :
          /\ call[w].op = "declineAppointmentRequest"
          /\ call[w].pc = "done"
          /\ call[w].res = "OK"
    /\ \E i \in RequestIdsInStore :
          /\ requests[i].created_by = "student"
          /\ requests[i].counselor_response = "declined"
          /\ requests[i].student_response = "accepted"
    /\ \E i \in RequestIdsInStore :
          /\ requests[i].created_by = "counselor"
          /\ requests[i].student_response = "declined"
          /\ requests[i].counselor_response = "accepted"

\* C14: after a cancelAppointment that succeeded, the appointment row is
\* still stored, marked cancelled, and isTimeSlotAvailable for its counselor
\* and interval answers true unless another non-cancelled appointment of the
\* counselor overlaps the interval.
C14_CancellationFreesInterval ==
    \A w \in Workers :
        ( /\ call[w].op = "cancelAppointment"
          /\ call[w].pc = "done"
          /\ call[w].res = "OK" )
        => \E a \in appointments :
              /\ a.appointment_id = call[w].appt
              /\ a.cancelled_at # Null
              /\ ~(\E b \in appointments :
                      /\ b.appointment_id # a.appointment_id
                      /\ b.counselor_id = a.counselor_id
                      /\ b.cancelled_at = Null
                      /\ a.start_time < b.end_time
                      /\ b.start_time < a.end_time)
                 => isTimeSlotAvailable(a.counselor_id, a.start_time, a.end_time, NoId)

\* a finalized appointment with its calendar event has been cancelled
C14_Witness ==
    \E w \in Workers :
        /\ call[w].op = "cancelAppointment"
        /\ call[w].pc = "done"
        /\ call[w].res = "OK"
        /\ \E a \in appointments :
              /\ a.appointment_id = call[w].appt
              /\ a.google_event_id # Null
              /\ a.cancelled_at # Null
              /\ requests[a.request].status = "both_confirmed"

\* the party of appointment a that may cancel it on the side of call record c
OwningParty(a, c) ==
    IF c.role = "student" THEN a.student_id ELSE a.counselor_id

\* C15: cancelAppointment by a user who is not the appointment's student
\* (student side) or counselor (counselor side) is refused with
\* UNAUTHORIZED_ACTION and for an unknown appointment id with
\* APPOINTMENT_NOT_FOUND; the appointments are left as they were.
C15_CancelAuthorization ==
    [][\A w \in Workers :
          LET d == call'[w]
              found == {a \in appointments : a.appointment_id = d.appt}
          IN  ( /\ call[w].pc = "idle"
                /\ d.op = "cancelAppointment" )
              => /\ found = {}
                    => /\ d.pc = "done"
                       /\ d.res = "APPOINTMENT_NOT_FOUND"
                       /\ appointments' = appointments
                 /\ (\E a \in found : OwningParty(a, d) # d.user)
                    => /\ d.pc = "done"
                       /\ d.res = "UNAUTHORIZED_ACTION"
                       /\ appointments' = appointments]_vars

\* a counselor other than the appointment's counselor was refused; the
\* appointment is not cancelled
C15_Witness ==
    \E w \in Workers :
        /\ call[w].op = "cancelAppointment"
        /\ call[w].role = "counselor"
        /\ call[w].pc = "done"
        /\ call[w].res = "UNAUTHORIZED_ACTION"
        /\ getCounselorDetails(call[w].user) # "none"
        /\ \E a \in appointments :
              /\ a.appointment_id = call[w].appt
              /\ a.counselor_id # call[w].user
              /\ a.cancelled_at = Null

\* the party of request r that answers it on the side of call record c
NamedParty(r, c) ==
    IF c.role = "student" THEN r.student_id ELSE r.counselor_id

\* C16: no step of an accept or decline called by a registered user who is
\* not the student (student side) or the counselor (counselor side) named in
\* the request changes the request's response fields or status or the
\* appointments.
C16_OnlyCounterpartResponds ==
    [][\A w \in Workers :
          LET c == call'[w]
          IN  ( /\ call'[w] # call[w]
                /\ c.op \in {"acceptAppointmentRequest", "declineAppointmentRequest"}
                /\ c.id \in RequestIdsInStore
                /\ NamedParty(requests[c.id], c) # c.user
                /\ IF c.role = "student" THEN getStudentDetails(c.user) # "none"
                   ELSE getCounselorDetails(c.user) # "none" )
              => /\ requests'[c.id].student_response = requests[c.id].student_response
                 /\ requests'[c.id].counselor_response = requests[c.id].counselor_response
                 /\ requests'[c.id].status = requests[c.id].status
                 /\ appointments' = appointments]_vars

\* C17: a free/busy query that raises an error lets requestAppointment and
\* the pre-check of an accept go on as if the interval were free, whereas a
\* createEvent that inserts no event ends the finalization with an error:
\* the transaction is closed and nothing is committed.
C17_FailOpenFailClosed ==
    [][\A w \in Workers :
          /\ RequestCalendarQuery(w, FALSE) => call'[w].pc = "req_create"
          /\ AcceptCalendarQuery(w, FALSE) => call'[w].pc = "acc_record"
          /\ ( /\ call[w].pc = "fin_event"
               /\ call'[w] # call[w]
               /\ events' = events )
             => /\ call'[w].pc = "done"
                /\ call'[w].res \notin {"OK", "none"}
                /\ tx[w].open
                /\ tx'[w] = NoTx
                /\ requests' = requests
                /\ appointments' = appointments]_vars

\* an accept is past its calendar check although the department calendar is
\* busy in the proposed interval
C17_Witness ==
    \E w \in Workers :
        /\ call[w].op = "acceptAppointmentRequest"
        /\ call[w].pc = "acc_record"
        /\ BusyPeriods(requests[call[w].id].department, call[w].start, call[w].end) # {}

\* the step ends the accept of worker w
AcceptEnds(w) ==
    /\ call[w].op = "acceptAppointmentRequest"
    /\ call[w].pc # "done"
    /\ call'[w].pc = "done"

\* C18: a finalization transaction that is open ends by a commit (the call
\* succeeds, the transaction's rows are stored) or by a rollback (the call
\* fails, the store is as before), an error leaves the call only with the
\* transaction rolled back, and when the call ends the query runner has been
\* released, whichever step failed.
C18_TransactionDiscipline ==
    [][\A w \in Workers :
          /\ (tx[w].open /\ ~tx'[w].open)
             => \/ /\ call'[w].res = "OK"
                   /\ appointments' = appointments \cup tx[w].appts
                \/ /\ call'[w].res \notin {"OK", "none"}
                   /\ requests' = requests
                   /\ appointments' = appointments
          /\ (AcceptEnds(w) /\ call'[w].res # "OK") => ~tx'[w].open
          /\ AcceptEnds(w) => ~tx'[w].held]_vars

Stale(r, expirationHours, t) ==
    r.status = "pending" /\ r.created_at + expirationHours < t

\* C20: the expiry sweep changes only requests that are pending and older
\* than the given number of hours, setting them to expired; declined,
\* both_confirmed and expired requests are left unchanged, and after a sweep
\* a second sweep at the same clock value finds nothing to change.
C20_ExpirySweep ==
    [][\A h \in ExpirationHours :
          MarkExpiredRequests(h) =>
             /\ Len(requests') = Len(requests)
             /\ \A i \in RequestIdsInStore :
                   IF Stale(requests[i], h, now)
                   THEN requests'[i] = [requests[i] EXCEPT !.status = "expired",
                                                           !.finalized_at = now]
                   ELSE requests'[i] = requests[i]
             /\ \A i \in RequestIdsInStore : ~Stale(requests'[i], h, now')
             /\ UNCHANGED <<appointments, events>>]_vars

\* a sweep at clock 1 has expired one request and left alone a request of
\* the same age that was declined at clock 0
C20_Witness ==
    \E i, j \in RequestIdsInStore :
        /\ requests[i].status = "expired"
        /\ requests[i].created_at = 0
        /\ requests[i].finalized_at = 1
        /\ requests[j].status = "declined"
        /\ requests[j].created_at = 0
        /\ requests[j].finalized_at = 0

\* the intervals of a finished slot call: the generated slots and the busy
\* periods of the free/busy answer
SlotCallDone == slotCall.code = "AVAILABLE_SLOTS_RETRIEVED"
GridSlots == {slotCall.allSlots[i] : i \in DOMAIN slotCall.allSlots}
SlotCallIntervals == GridSlots \cup slotCall.busySlots

\* C21: the overlap test is symmetric, A conflicts with B exactly when B
\* conflicts with A, for the predicate of isTimeSlotAvailable and for the
\* predicate that filters the slots against the busy periods.
C21_OverlapSymmetric ==
    SlotCallDone =>
        \A A, B \in SlotCallIntervals :
            /\ Overlaps(A.start, A.end, B.start, B.end)
                  <=> Overlaps(B.start, B.end, A.start, A.end)
            /\ SlotOverlapsBusy(A, B) <=> SlotOverlapsBusy(B, A)

\* a slot has been filtered against a busy period that covers part of it and
\* against a busy period of length zero
C21_Witness ==
    /\ SlotCallDone
    /\ \E slot \in GridSlots, busy \in slotCall.busySlots :
          /\ SlotOverlapsBusy(slot, busy)
          /\ slot.start < busy.start /\ slot.end < busy.end
    /\ \E busy \in slotCall.busySlots : busy.start = busy.end

\* C22: touching intervals never conflict: for t0 < t1 < t2, neither of
\* [t0,t1) and [t1,t2) makes the other unavailable, in isTimeSlotAvailable
\* and in the filter of the slots against the busy periods, so a slot that
\* touches a busy period of positive length, and overlaps no other, stays in
\* the result.
C22_TouchingNeverConflict ==
    SlotCallDone =>
        /\ \A A, B \in SlotCallIntervals :
              (A.start < A.end /\ A.end = B.start /\ B.start < B.end)
                 => /\ ~Overlaps(A.start, A.end, B.start, B.end)
                    /\ ~Overlaps(B.start, B.end, A.start, A.end)
                    /\ ~SlotOverlapsBusy(A, B)
                    /\ ~SlotOverlapsBusy(B, A)
        /\ \A slot \in GridSlots :
              (\A busy \in slotCall.busySlots :
                  /\ busy.start < busy.end
                  /\ busy.end <= slot.start \/ slot.end <= busy.start)
                 => \E i \in DOMAIN slotCall.data : slotCall.data[i] = slot

\* a slot that ends where a busy period begins, and a slot that begins where
\* a busy period ends, are both in the result
C22_Witness ==
    /\ SlotCallDone
    /\ \E busy \in slotCall.busySlots, i, j \in DOMAIN slotCall.data :
          /\ busy.start < busy.end
          /\ slotCall.data[i].end = busy.start
          /\ slotCall.data[j].start = busy.end

\* the parameters a finished slot call ran with
DurationOf(c) == parseIntOr(c.q.slotDuration, 60).n
WorkStartOf(c) == parseIntOr(c.q.workStartHour, 9).n
WorkEndOf(c) == parseIntOr(c.q.workEndHour, 17).n
DayOf(t) == t \div MinutesPerDay
GridDays == {DayOf(slot.start) : slot \in GridSlots}
IsWeekday(day) == (day + EpochDay) % 7 \notin {0, 6}

\* C23: with slotDurationMinutes = 60 and work hours s < e, the grid of one
\* weekday has exactly e - s slots, the first starting at s:00, the last
\* ending at e:00 and none starting at or after e:00.
C23_HourGrid ==
    (SlotCallDone /\ DurationOf(slotCall) = 60) =>
        LET s == WorkStartOf(slotCall)
            e == WorkEndOf(slotCall)
            first == DayOf(slotCall.q.startDate.n)
            days == GridDays \cup
                    (IF IsWeekday(first)
                        /\ slotCall.q.startDate.n <= slotCall.q.endDate.n
                     THEN {first} ELSE {})
        IN  \A day \in days :
               LET at == {i \in DOMAIN slotCall.allSlots :
                             DayOf(slotCall.allSlots[i].start) = day}
                   midnight == day * MinutesPerDay
               IN  /\ Cardinality(at) = e - s
                   /\ \A i \in at :
                         /\ slotCall.allSlots[i].start >= midnight + s * 60
                         /\ slotCall.allSlots[i].start < midnight + e * 60
                         /\ slotCall.allSlots[i].end <= midnight + e * 60
                         /\ slotCall.allSlots[i].end
                               = slotCall.allSlots[i].start + 60
                   /\ \E i \in at :
                         slotCall.allSlots[i].start = midnight + s * 60
                   /\ \E i \in at :
                         slotCall.allSlots[i].end = midnight + e * 60

\* the grid of a weekday for the work hours 9 to 17 has 8 slots of one hour
C23_Witness ==
    /\ SlotCallDone
    /\ DurationOf(slotCall) = 60
    /\ WorkStartOf(slotCall) = 9
    /\ WorkEndOf(slotCall) = 17
    /\ \E day \in GridDays :
          Cardinality({i \in DOMAIN slotCall.allSlots :
                          DayOf(slotCall.allSlots[i].start) = day}) = 8

\* C24: within one day the generated slots are consecutive for every
\* positive slotDurationMinutes: the first starts at workStartHour:00, each
\* further slot starts where the previous one ends, and the slots of one day
\* do not overlap each other.
C24_SlotsConsecutive ==
    SlotCallDone =>
        LET grid == slotCall.allSlots
        IN  /\ \A day \in GridDays :
                  \E i \in DOMAIN grid :
                      grid[i].start = day * MinutesPerDay
                                         + WorkStartOf(slotCall) * MinutesPerHour
            /\ \A i \in DOMAIN grid :
                  (i + 1 \in DOMAIN grid
                      /\ DayOf(grid[i + 1].start) = DayOf(grid[i].start))
                     => grid[i + 1].start = grid[i].end
            /\ \A i, j \in DOMAIN grid :
                  (i # j /\ DayOf(grid[i].start) = DayOf(grid[j].start))
                     => ~Overlaps(grid[i].start, grid[i].end,
                                  grid[j].start, grid[j].end)

\* C25: the slot grid contains no slot whose date, the local day its start
\* lies on, is a Saturday or a Sunday, for every date range and every
\* setting of the duration and of the work hours that passes the checks.
C25_NoWeekendSlots ==
    SlotCallDone =>
        \A slot \in GridSlots : getDay(slot.start) \notin {0, 6}

\* a grid over a range that contains a Saturday and a Sunday, with slots
\* before and after them
C25_Witness ==
    /\ SlotCallDone
    /\ \E a, b \in GridSlots :
          \E sat, sun \in DayOf(a.start) + 1 .. DayOf(b.start) - 1 :
              /\ (sat + EpochDay) % 7 = 6
              /\ (sun + EpochDay) % 7 = 0

\* C26: the slot grid covers every weekday from the day of rangeStart to the
\* day of rangeEnd inclusive, whatever the times of day of rangeStart and
\* rangeEnd.
C26_CoversEveryWeekday ==
    (SlotCallDone /\ slotCall.q.startDate.n < slotCall.q.endDate.n) =>
        \A day \in DayOf(slotCall.q.startDate.n) .. DayOf(slotCall.q.endDate.n) :
            IsWeekday(day) => day \in GridDays

\* the half-open intervals [aStart, aEnd) and [bStart, bEnd) share a point
SharePoint(a, b) == \E t \in a.start .. (a.end - 1) : t \in b.start .. (b.end - 1)

BadDuration(q) ==
    isNaN(parseIntOr(q.slotDuration, 60)) \/ parseIntOr(q.slotDuration, 60).n <= 0
BadWorkStart(q) ==
    \/ isNaN(parseIntOr(q.workStartHour, 9))
    \/ parseIntOr(q.workStartHour, 9).n \notin 0..23
BadWorkEnd(q) ==
    \/ isNaN(parseIntOr(q.workEndHour, 17))
    \/ parseIntOr(q.workEndHour, 17).n \notin 0..24
BadWorkHours(q) ==
    parseIntOr(q.workStartHour, 9).n >= parseIntOr(q.workEndHour, 17).n
BadRange(q) == q.endDate.n <= q.startDate.n

\* C28: each invalid input is rejected with its own named validation error
\* and no slots are returned: slotDurationMinutes <= 0, workStartHour outside
\* 0..23, workEndHour outside 0..24, workStartHour >= workEndHour, and
\* rangeEnd <= rangeStart.
C28_InvalidInputsRejected ==
    (/\ slotCall.pc = "done"
     /\ slotCall.q.userId # "none"
     /\ slotCall.q.userRole = slotCall.role
     /\ slotCall.q.department # "none"
     /\ slotCall.q.startDate.kind = "num"
     /\ slotCall.q.endDate.kind = "num") =>
        LET q == slotCall.q
        IN  /\ BadDuration(q) => slotCall.code = "INVALID_SLOT_DURATION"
            /\ (~BadDuration(q) /\ BadWorkStart(q))
                  => slotCall.code = "INVALID_WORK_START_HOUR"
            /\ (~BadDuration(q) /\ ~BadWorkStart(q) /\ BadWorkEnd(q))
                  => slotCall.code = "INVALID_WORK_END_HOUR"
            /\ (~BadDuration(q) /\ ~BadWorkStart(q) /\ ~BadWorkEnd(q)
                   /\ BadWorkHours(q))
                  => slotCall.code = "INVALID_WORK_HOURS"
            /\ (BadDuration(q) \/ BadWorkStart(q) \/ BadWorkEnd(q)
                   \/ BadWorkHours(q) \/ BadRange(q))
                  => /\ slotCall.code \notin {"AVAILABLE_SLOTS_RETRIEVED",
                                              "CALENDAR_QUERY_FAILED"}
                     /\ slotCall.data = <<>>

\* the fields of an appointment row that a cancellation is to leave alone
SameBooking(a, b) ==
    /\ b.appointment_id = a.appointment_id
    /\ b.request = a.request
    /\ b.student_id = a.student_id
    /\ b.counselor_id = a.counselor_id
    /\ b.department = a.department
    /\ b.agenda = a.agenda
    /\ b.start_time = a.start_time
    /\ b.end_time = a.end_time
    /\ b.google_event_id = a.google_event_id

\* C29: cancelAppointment is local only: it sets cancelled_by, cancelled_at
\* and the status of the appointment, and leaves the calendar events, the
\* originating request and the interval and event id of the appointment
\* unchanged.
C29_CancelIsLocal ==
    [][\A w \in Workers :
          ( /\ call[w].op = "cancelAppointment"
            /\ call[w].pc = "can_record"
            /\ call'[w].pc = "done" )
          => /\ events' = events
             /\ requests' = requests
             /\ \A b \in appointments' : \E a \in appointments : SameBooking(a, b)
             /\ \A a \in appointments :
                   \E b \in appointments' :
                       /\ SameBooking(a, b)
                       /\ a.appointment_id # call[w].appt => b = a
                       /\ (a.appointment_id = call[w].appt /\ call'[w].res = "OK")
                             => /\ b.cancelled_by = call[w].role
                                /\ b.cancelled_at = now
                                /\ b.status = "declined"]_vars

\* an appointment has been cancelled: its calendar event is still in the
\* calendar and its request is still both_confirmed
C29_Witness ==
    \E w \in Workers :
        /\ call[w].op = "cancelAppointment"
        /\ call[w].pc = "done"
        /\ call[w].res = "OK"
        /\ \E a \in appointments :
              /\ a.appointment_id = call[w].appt
              /\ a.cancelled_at # Null
              /\ a.cancelled_by = call[w].role
              /\ \E e \in events : e.event_id = a.google_event_id
              /\ requests[a.request].status = "both_confirmed"
              /\ requests[a.request].student_response = "accepted"
              /\ requests[a.request].counselor_response = "accepted"

\* C30: the predicate that filters the slots against the busy periods gives
\* the same answer as the half-open overlap test of isTimeSlotAvailable for
\* every slot and busy period, busy periods of length zero and busy periods
\* that touch a slot boundary included.
C30_FilterMatchesOverlap ==
    SlotCallDone =>
        \A slot \in GridSlots, busy \in slotCall.busySlots :
            SlotOverlapsBusy(slot, busy)
               <=> Overlaps(slot.start, slot.end, busy.start, busy.end)

\* C31: a failure of calendar event creation during finalization reaches the
\* caller as the named error GOOGLE_CALENDAR_EVENT_CREATION_FAILED, which no
\* other failure of the accept call carries.
C31_EventCreationFailureNamed ==
    [][\A w \in Workers :
          /\ (call[w].pc = "fin_event" /\ call'[w].pc = "done")
                => call'[w].res = "GOOGLE_CALENDAR_EVENT_CREATION_FAILED"
          /\ (call[w].pc # "fin_event" /\ call[w].pc # "done"
                 /\ call'[w].pc = "done")
                => call'[w].res # "GOOGLE_CALENDAR_EVENT_CREATION_FAILED"]_vars

\* the response field of the party that created request r
CreatorResponse(r) ==
    IF r.created_by = "student" THEN r.student_response ELSE r.counselor_response

\* C35: in every reachable state the response field of the party that
\* created a request is accepted; so no request is pending with both fields
\* accepted or with the creator's field pending, and every successful accept
\* is a mutual acceptance that went through finalization and returns the
\* appointment, never null.
C35_CreatorHasAccepted ==
    /\ \A i \in RequestIdsInStore :
          /\ CreatorResponse(requests[i]) = "accepted"
          /\ ~( /\ requests[i].status = "pending"
                /\ requests[i].student_response = "accepted"
                /\ requests[i].counselor_response = "accepted" )
    /\ \A w \in Workers :
          ( /\ call[w].op = "acceptAppointmentRequest"
            /\ call[w].pc = "done"
            /\ call[w].res = "OK" )
          => call[w].ret # NoId

\* a student has accepted a request a counselor created and a counselor has
\* accepted a request a student created
C35_Witness ==
    /\ \E i \in RequestIdsInStore :
          /\ requests[i].created_by = "counselor"
          /\ requests[i].status = "both_confirmed"
    /\ \E i \in RequestIdsInStore :
          /\ requests[i].created_by = "student"
          /\ requests[i].status = "both_confirmed"
    /\ \E w \in Workers :
          /\ call[w].op = "acceptAppointmentRequest"
          /\ call[w].pc = "done"
          /\ call[w].res = "OK"
          /\ call[w].ret # NoId

\* the calendar events that no committed appointment row carries
Unattached(eventSet, rows) ==
    {e \in eventSet : ~\E a \in rows : a.google_event_id = e.event_id}

\* C33: a calendar event is created only by a createEvent that succeeds; an
\* accept that ends with an event of its own that no committed appointment
\* carries has failed, and it failed after its createEvent had succeeded (at
\* attaching the event id or at the commit); an accept that fails at an
\* earlier step of the finalization, or whose createEvent itself fails, has
\* created no event and leaves the calendar as it was.
C33_OrphanOnlyAfterCreateEvent ==
    [][/\ events' # events
          => /\ Cardinality(events' \ events) = 1
             /\ events \subseteq events'
             /\ \E w \in Workers :
                   /\ call[w].pc = "fin_event"
                   /\ call'[w].pc = "fin_attach"
                   /\ \A e \in events' \ events : e.event_id = call'[w].ev
       /\ \A w \in Workers :
             AcceptEnds(w) =>
                LET c == call[w]
                    left == {e \in Unattached(events', appointments') :
                                e.event_id = c.ev}
                IN  /\ left # {}
                       => /\ call'[w].res # "OK"
                          /\ c.pc \in {"fin_attach", "fin_commit"}
                    /\ (call'[w].res # "OK" /\ c.pc \notin {"fin_attach", "fin_commit"})
                       => /\ c.ev = NoId
                          /\ events' = events]_vars

\* a counselor's accept has failed at the commit and the event it created
\* is in the calendar with no committed appointment carrying it
C33_Witness ==
    \E w \in Workers :
        /\ call[w].op = "acceptAppointmentRequest"
        /\ call[w].pc = "done"
        /\ call[w].why = "commit"
        /\ call[w].ev # NoId
        /\ \E e \in Unattached(events, appointments) : e.event_id = call[w].ev
        /\ ~\E a \in appointments : a.request = call[w].id

\* the grid of slots that the request of the slot call asks for
RequestedGrid ==
    allSlots(slotCall.q.startDate.n, slotCall.q.endDate.n,
             parseIntOr(slotCall.q.slotDuration, 60).n,
             parseIntOr(slotCall.q.workStartHour, 9).n,
             parseIntOr(slotCall.q.workEndHour, 17).n)

\* C34: when the free/busy query for the department's busy periods raises
\* an error, the request for available slots ends with the error
\* CALENDAR_QUERY_FAILED and carries no slots, neither the filtered nor the
\* unfiltered grid; that error is given only when the query has failed.
C34_BusyFetchFailureFailsClosed ==
    slotCall.pc = "done" =>
        /\ (SlotsChecks(slotCall.q, slotCall.role) = "OK" /\ ~slotCall.queryOk)
              => /\ slotCall.code = "CALENDAR_QUERY_FAILED"
                 /\ slotCall.data = <<>>
                 /\ slotCall.allSlots = <<>>
        /\ slotCall.code = "CALENDAR_QUERY_FAILED" => ~slotCall.queryOk

\* the query has failed for a request whose grid has slots to offer
C34_Witness ==
    /\ slotCall.pc = "done"
    /\ slotCall.code = "CALENDAR_QUERY_FAILED"
    /\ ~slotCall.queryOk
    /\ SlotsChecks(slotCall.q, slotCall.role) = "OK"
    /\ RequestedGrid # <<>>
    /\ slotCall.data = <<>>

\* C36: a cancellation is recorded once; no step changes cancelled_by or
\* cancelled_at of an appointment that is already cancelled.
C36_CancellationRecordedOnce ==
    [][\A a \in appointments :
          a.cancelled_by # "none" =>
             \A b \in appointments' :
                b.appointment_id = a.appointment_id =>
                   /\ b.cancelled_by = a.cancelled_by
                   /\ b.cancelled_at = a.cancelled_at]_vars

\* the call of worker w has handed a record to its caller
ReadReturns(w, op) ==
    /\ call[w].op = op
    /\ call[w].pc = "done"
    /\ call[w].res = "OK"

\* C37: a read by id hands a request or an appointment only to a caller who
\* is the record's student (student service) or the record's counselor
\* (counselor service); a caller who is not gets UNAUTHORIZED_ACTION for a
\* record that exists.
C37_ReadOnlyByParticipant ==
    \A w \in Workers :
        /\ ReadReturns(w, "getAppointmentRequest")
              => LET r == requests[call[w].ret]
                 IN  IF call[w].role = "student"
                     THEN r.student_id = call[w].user
                     ELSE r.counselor_id = call[w].user
        /\ ReadReturns(w, "getAppointment")
              => \A a \in getAppointmentById(call[w].ret) :
                    IF call[w].role = "student"
                    THEN a.student_id = call[w].user
                    ELSE a.counselor_id = call[w].user

====
